---------------------------- MODULE Spec2Model ----------------------------
(***************************************************************************)
(* Reconciliation engine and translation orchestrator of i18n-ally:        *)
(*   analyzeMissingKeys   (two copies: the one that pre-filters to keys    *)
(*                         backed by a source value, and the older one     *)
(*                         that computes coverage over every key),         *)
(*   writeMissingKeys     (the missing/empty keys report),                 *)
(*   analyzeUnusedKeys    (idle keys filtered by auto-save preferences),   *)
(*   performAutoTranslation (the sequential, cancellable translate loop).  *)
(***************************************************************************)
EXTENDS Integers, Sequences, FiniteSets, TLC

(***************************************************************************)
(* Bounds of the model.                                                    *)
(***************************************************************************)
MaxKeys == 2

MaxEdits == 1
\* number of times each analysis is run on one catalog
MaxRuns == 2

(***************************************************************************)
(* Configuration: Global.visibleLocales (an array, iterated in order) and  *)
(* Config.sourceLanguage.                                                  *)
(***************************************************************************)
visibleLocales == <<"en", "fr", "de">>

sourceLanguage == "en"

Locales == {visibleLocales[n] : n \in 1..Len(visibleLocales)}

TargetLocales == Locales \ {sourceLanguage}

Keys == 1..MaxKeys

(***************************************************************************)
(* Strings.  A value is a string; Undefined stands for JavaScript's        *)
(* undefined (the result of getValue when the locale has no record).       *)
(***************************************************************************)
Undefined == "<undefined>"

Values == {"", " ", "Hi"}

\* String.prototype.trim on the values of the model; undefined?.trim() is undefined
Trim(s) == IF s = " " THEN "" ELSE s

\* JavaScript truthiness of a string-or-undefined
Truthy(s) == s # Undefined /\ s # ""

(***************************************************************************)
(* File paths: <dir>/<name><ext>.  path.basename(p, '.json') drops the     *)
(* directory and a trailing '.json' only.                                  *)
(***************************************************************************)
FileNames == {"frontend", "bot"}

BaseNames == {"frontend.json", "bot.json", "frontend.yaml"}

Path(l, b) == [dir |-> l, base |-> b]

NoFile == Path("", "")

FilesOf(l) == {Path(l, b) : b \in BaseNames}

\* path.basename(p) without the suffix argument
basenameWithExt(p) == p.base

\* path.basename(p, '.json')
basename(p) ==
  CASE p.base = "frontend.json" -> "frontend"
    [] p.base = "bot.json" -> "bot"
    [] OTHER -> p.base

(***************************************************************************)
(* The catalog: one LocaleRecord (value, file) or none per (key, locale).  *)
(***************************************************************************)
NoRec == [present |-> FALSE, value |-> "", file |-> NoFile]

Rec(v, f) == [present |-> TRUE, value |-> v, file |-> f]

VARIABLES
  catalog,          \* [Keys -> [Locales -> record]]
  prefs,            \* workspace setting autoSavePreferences: [Locales -> "" | name]
  usage,            \* the usage report: [missing: set of keys, idle: sequence of keys]
  op,               \* the operation that produced the outputs below
  missingKeysInfo,  \* result of analyzeMissingKeys
  allMissingKeys,   \* the local allMissingKeys of the operation
  unusedKeys,       \* result of analyzeUnusedKeys
  runs,             \* history: how often each analysis ran: [missing, unused]
  pc,               \* where the auto-translate command stands
  i,                \* index of the keypath of the outer loop (1-based)
  j,                \* index of the locale of the inner loops (1-based)
  token,            \* token.isCancellationRequested
  answer,           \* the button picked in the confirmation dialog, "none" before it
  pendingWrites,    \* pendingWrites of the current keypath: [Locales -> file | NoFile]
  listeners,        \* listeners registered on Translator.onDidChange: <<keypath, locale>>
  jobs,             \* translation invocations not yet ended: <<index, locale, status>>
  translatedCount,  \* translatedCount
  delays,           \* history: the kinds of delay taken since the last translation invocation
  message,          \* the terminal user-visible message of the command
  written,          \* history: <<index, locale>> of every loader.write issued
  invoked,          \* history: <<index, locale>> of every Translator.translateNodes call
  calls,            \* history: the arguments of every Translator.translateNodes call:
                    \* [index, records: locales of the items, locales: target locales]
  unrouted,         \* history: <<index, locale>> of every pair no target file was resolved for
  processed,        \* history: <<index, locale>> of every finished pass of the locale loop
  completedKeys,    \* history: indices whose locale loop ran to its end
  cancelIter,       \* history: the iteration that was running when cancellation was requested
  invokedAtCancel,  \* history: the number of invocations issued before that request
  caught,           \* history: <<index, locale, step>> of the failures of the current
                    \* keypath that a catch block logged
  uncaught,         \* history: <<index, locale, step>> of the failures no catch block saw
  edits,            \* number of steps other parties took: changes of the catalog made
                    \* outside the command, notifications of other translations
  loader,           \* CurrentFile.loader is set
  workspaceFolders, \* workspace.workspaceFolders is a non-empty list
  cpc,              \* where the cleanup command stands
  confirmEach,      \* CleanupOptions.confirmEach
  selectedKeys,     \* result.selectedKeys of showUnusedKeysDialog
  ci,               \* index of the selected key performCleanup is at (1-based)
  recordsToDelete,  \* recordsToDelete: sequence of <<keypath, locale>>
  removedCount,     \* removedCount
  deleteCalls,      \* history: the argument of every DeleteRecords call
  refreshes,        \* number of Analyst.analyzeUsage(false) timers scheduled
  hasCache,         \* Analyst.hasCache()
  prompts,          \* history: <<index, answer>> of every per-key prompt
  shown,            \* history: the messages shown by the commands other than auto-translate
  apc,              \* where each invocation of the auto-detect command stands
  detectedLocales,  \* per invocation: detectedLocales
  todo,             \* per invocation: the <<locale, fileType>> pairs still to apply
  currentPrefs,     \* per invocation: currentPrefs of its setupAutoSavePreference call
  appliedCount,     \* per invocation: appliedCount
  completedSetups,  \* history: <<locale, fileType>> of every setupAutoSavePreference call
                    \* that returned
  rpc,              \* where the report command stands
  toWorkspace,      \* the report command is writeMissingKeysToWorkspace
  reportSets,       \* the sets and per-locale lists the report command collected
  editor,           \* the file of window.activeTextEditor, NoEditor without an editor
  resolveArgs,      \* the arguments of the last getTargetFileForExtraction call
  target,           \* the result of the last getTargetFileForExtraction call
  lastEvent,        \* the last notification fired on Translator.onDidChange
  manage,           \* the manage-preferences command: where it stands and its locals
  dialog            \* per invocation: what showLocalePreferenceDialog returned and the
                    \* stored preferences at that moment

analysisVars == <<op, missingKeysInfo, allMissingKeys, unusedKeys, runs>>

inputVars == <<catalog, prefs, usage>>

loopVars == <<pc, i, j, token, answer, pendingWrites, listeners, jobs, translatedCount, delays, message>>

historyVars == <<written, invoked, calls, processed, unrouted, completedKeys, cancelIter, invokedAtCancel,
                 caught, uncaught>>

runVars == <<pc, i, j, token, answer, pendingWrites, listeners, jobs, translatedCount, delays, message,
             written, invoked, calls, processed, unrouted, completedKeys, cancelIter, invokedAtCancel,
          caught, uncaught, edits, lastEvent>>

configVars == <<loader, workspaceFolders>>

cleanupVars == <<cpc, confirmEach, selectedKeys, ci, recordsToDelete, removedCount, deleteCalls,
                 refreshes, hasCache, prompts>>

prefVars == <<apc, detectedLocales, todo, currentPrefs, appliedCount, completedSetups, dialog>>

reportVars == <<rpc, toWorkspace, reportSets>>

resolveVars == <<editor, resolveArgs, target>>

busVars == <<lastEvent>>

\* what the commands other than the translation run work on
manageVars == <<manage>>

otherCmdVars == <<configVars, cleanupVars, shown, prefVars, reportVars, resolveVars, manageVars>>

cmdVars == <<otherCmdVars, busVars>>

vars == <<catalog, prefs, usage, op, missingKeysInfo, allMissingKeys, unusedKeys, runs,
          pc, i, j, token, answer, pendingWrites, listeners, jobs, translatedCount, delays, message,
          written, invoked, calls, processed, unrouted, completedKeys, cancelIter, invokedAtCancel,
          caught, uncaught, edits, cmdVars>>

(***************************************************************************)
(* Catalog loader lookups.                                                 *)
(***************************************************************************)
\* a LocaleNode exists for a key as soon as some locale holds a record of it
HasNode(cat, k) == \E l \in Locales : cat[k][l].present

\* LocaleNode.getValue(locale)
getValue(cat, k, l) == IF cat[k][l].present THEN cat[k][l].value ELSE Undefined

\* loader.getFilepathByKey(keypath, locale)
getFilepathByKey(cat, k, l) == IF cat[k][l].present THEN cat[k][l].file ELSE NoFile

RECURSIVE SeqOfRange(_, _)
SeqOfRange(a, b) == IF a > b THEN <<>> ELSE <<a>> \o SeqOfRange(a + 1, b)

\* loader.keys: the keys of the catalog, in catalog order
loaderKeys(cat) == SelectSeq(SeqOfRange(1, MaxKeys), LAMBDA k : HasNode(cat, k))

Range(s) == {s[n] : n \in 1..Len(s)}

\* loader.getCoverage(locale, keys)
getCoverage(cat, l, keys) ==
  [missingKeys |-> SelectSeq(keys, LAMBDA k : ~cat[k][l].present),
   emptyKeys   |-> SelectSeq(keys, LAMBDA k : cat[k][l].present /\ Trim(cat[k][l].value) = "")]


(***************************************************************************)
(* analyzeMissingKeys, the copy that restricts the universe to the keys    *)
(* that have a non-blank value in the source locale.                       *)
(***************************************************************************)
\* Set.add of every element of a sequence, keeping insertion order
RECURSIVE AddAll(_, _)
AddAll(acc, items) ==
  IF items = <<>> THEN acc
  ELSE AddAll(IF Head(items) \in Range(acc) THEN acc ELSE Append(acc, Head(items)), Tail(items))

Includes(s, x) == x \in Range(s)

sourceKeysOf(cat) ==
  SelectSeq(loaderKeys(cat),
            LAMBDA k : HasNode(cat, k) /\ Truthy(Trim(getValue(cat, k, sourceLanguage))))

\* the loop over Global.visibleLocales that fills missingKeysByLocale and allMissingKeys
RECURSIVE CollectMissing(_, _, _, _, _)
CollectMissing(cat, pf, keys, n, acc) ==
  IF n > Len(visibleLocales) THEN acc
  ELSE LET locale == visibleLocales[n]
           cov == getCoverage(cat, locale, keys)
           filteredMissingKeys == SelectSeq(cov.missingKeys, LAMBDA k : TRUE)
       IN IF locale = sourceLanguage THEN CollectMissing(cat, pf, keys, n + 1, acc)
          ELSE IF Len(cov.missingKeys) > 0
          THEN IF Truthy(pf[locale])
               THEN CollectMissing(cat, pf, keys, n + 1,
                      [byLocale |-> [acc.byLocale EXCEPT ![locale] = filteredMissingKeys],
                       all |-> AddAll(acc.all, filteredMissingKeys)])
               ELSE CollectMissing(cat, pf, keys, n + 1,
                      [byLocale |-> [acc.byLocale EXCEPT ![locale] = cov.missingKeys],
                       all |-> AddAll(acc.all, cov.missingKeys)])
          ELSE CollectMissing(cat, pf, keys, n + 1, acc)

EmptyAcc == [byLocale |-> [l \in Locales |-> <<>>], all |-> <<>>]

\* the loop over allMissingKeys that builds the MissingKeyInfo objects
RECURSIVE BuildInfo(_, _, _)
BuildInfo(cat, byLocale, all) ==
  IF all = <<>> THEN <<>>
  ELSE LET keypath == Head(all)
           missingLocales == SelectSeq(visibleLocales, LAMBDA l : Includes(byLocale[l], keypath))
       IN IF Len(missingLocales) > 0
          THEN <<[keypath |-> keypath, locales |-> missingLocales,
                  sourceLocale |-> sourceLanguage,
                  sourceValue |-> getValue(cat, keypath, sourceLanguage)]>>
               \o BuildInfo(cat, byLocale, Tail(all))
          ELSE BuildInfo(cat, byLocale, Tail(all))

analyzeMissingKeys(cat, pf, us) ==
  LET acc == CollectMissing(cat, pf, sourceKeysOf(cat), 1, EmptyAcc)
  IN [info |-> BuildInfo(cat, acc.byLocale, acc.all), all |-> Range(acc.all)]


(***************************************************************************)
(* analyzeMissingKeys, the copy in src/commands/autoTranslateMissingKeys.ts *)
(* that computes coverage of every visible locale over loader.keys and     *)
(* looks the source value up afterwards.                                   *)
(***************************************************************************)
\* value || ''
OrEmpty(v) == IF Truthy(v) THEN v ELSE ""

RECURSIVE CollectMissingLoose(_, _, _, _)
CollectMissingLoose(cat, pf, n, acc) ==
  IF n > Len(visibleLocales) THEN acc
  ELSE LET locale == visibleLocales[n]
           keys == loaderKeys(cat)
           cov == getCoverage(cat, locale, keys)
           filteredMissingKeys == SelectSeq(cov.missingKeys, LAMBDA k : TRUE)
       IN IF Len(cov.missingKeys) > 0
          THEN IF Truthy(pf[locale])
               THEN CollectMissingLoose(cat, pf, n + 1,
                      [byLocale |-> [acc.byLocale EXCEPT ![locale] = filteredMissingKeys],
                       all |-> AddAll(acc.all, filteredMissingKeys)])
               ELSE CollectMissingLoose(cat, pf, n + 1,
                      [byLocale |-> [acc.byLocale EXCEPT ![locale] = cov.missingKeys],
                       all |-> AddAll(acc.all, cov.missingKeys)])
          ELSE CollectMissingLoose(cat, pf, n + 1, acc)

RECURSIVE BuildInfoLoose(_, _, _)
BuildInfoLoose(cat, byLocale, all) ==
  IF all = <<>> THEN <<>>
  ELSE LET keypath == Head(all)
           missingLocales == SelectSeq(visibleLocales, LAMBDA l : Includes(byLocale[l], keypath))
           sourceValue == IF HasNode(cat, keypath)
                          THEN OrEmpty(getValue(cat, keypath, sourceLanguage))
                          ELSE ""
       IN IF Len(missingLocales) > 0
          THEN <<[keypath |-> keypath, locales |-> missingLocales,
                  sourceLocale |-> sourceLanguage, sourceValue |-> sourceValue]>>
               \o BuildInfoLoose(cat, byLocale, Tail(all))
          ELSE BuildInfoLoose(cat, byLocale, Tail(all))

analyzeMissingKeysLoose(cat, pf, us) ==
  LET acc == CollectMissingLoose(cat, pf, 1, EmptyAcc)
  IN [info |-> BuildInfoLoose(cat, acc.byLocale, acc.all), all |-> Range(acc.all)]

(***************************************************************************)
(* WriteMissingKeysToFile.writeMissingKeys: the sets of the report.        *)
(* usageOk = FALSE is the run in which Analyst.analyzeUsage() throws.      *)
(***************************************************************************)
\* the report command's collections before anything is added to them, and the answer of
\* its save dialog
NoSets ==
  [codeDetectedMissingKeys |-> {}, missing |-> {}, empty |-> {},
   missingKeysByLocale |-> [l \in Locales |-> <<>>],
   emptyKeysByLocale |-> [l \in Locales |-> <<>>],
   saveUri |-> ""]

RECURSIVE CollectReport(_, _, _)
CollectReport(cat, n, acc) ==
  IF n > Len(visibleLocales) THEN acc
  ELSE LET locale == visibleLocales[n]
           cov == getCoverage(cat, locale, loaderKeys(cat))
       IN CollectReport(cat, n + 1,
            [codeDetectedMissingKeys |-> acc.codeDetectedMissingKeys,
             missing |-> IF Len(cov.missingKeys) > 0
                         THEN acc.missing \cup Range(cov.missingKeys) ELSE acc.missing,
             empty   |-> IF Len(cov.emptyKeys) > 0
                         THEN acc.empty \cup Range(cov.emptyKeys) ELSE acc.empty,
             missingKeysByLocale |->
               IF Len(cov.missingKeys) > 0
               THEN [acc.missingKeysByLocale EXCEPT ![locale] = cov.missingKeys]
               ELSE acc.missingKeysByLocale,
             emptyKeysByLocale |->
               IF Len(cov.emptyKeys) > 0
               THEN [acc.emptyKeysByLocale EXCEPT ![locale] = cov.emptyKeys]
               ELSE acc.emptyKeysByLocale,
             saveUri |-> acc.saveUri])

\* a report that lists the keys with a blank value among the missing ones
writeMissingKeysBlankIsMissing(cat, us, usageOk) ==
  LET r == CollectReport(cat, 1, NoSets)
  IN [r EXCEPT !.missingKeysByLocale =
                 [l \in Locales |-> r.missingKeysByLocale[l] \o r.emptyKeysByLocale[l]],
               !.emptyKeysByLocale = [l \in Locales |-> <<>>]]

writeMissingKeys(cat, us, usageOk) ==
  CollectReport(cat, 1, [NoSets EXCEPT !.codeDetectedMissingKeys = IF usageOk THEN us.missing ELSE {},
                                       !.missing = IF usageOk THEN us.missing ELSE {}])

(***************************************************************************)
(* analyzeUnusedKeys.                                                      *)
(***************************************************************************)
\* the loop over Global.visibleLocales for one idle key
RECURSIVE UnusedIn(_, _, _, _, _)
UnusedIn(cat, pf, keypath, n, acc) ==
  IF n > Len(visibleLocales) THEN acc
  ELSE LET locale == visibleLocales[n]
           filepath == getFilepathByKey(cat, keypath, locale)
           push == [locales |-> Append(acc.locales, locale), files |-> Append(acc.files, filepath)]
       IN IF ~HasNode(cat, keypath) THEN UnusedIn(cat, pf, keypath, n + 1, acc)
          ELSE IF Truthy(pf[locale])
          THEN IF filepath # NoFile /\ basename(filepath) = pf[locale]
               THEN UnusedIn(cat, pf, keypath, n + 1, push)
               ELSE UnusedIn(cat, pf, keypath, n + 1, acc)
          ELSE IF filepath # NoFile
               THEN UnusedIn(cat, pf, keypath, n + 1, push)
               ELSE UnusedIn(cat, pf, keypath, n + 1, acc)

\* _.uniq
uniq(s) == AddAll(<<>>, s)

\* an analysis that reports an idle key whether or not a locale qualifies
RECURSIVE analyzeUnusedKeysAll(_, _, _)
analyzeUnusedKeysAll(cat, pf, idleKeys) ==
  IF idleKeys = <<>> THEN <<>>
  ELSE LET keypath == Head(idleKeys)
           found == UnusedIn(cat, pf, keypath, 1, [locales |-> <<>>, files |-> <<>>])
       IN <<[keypath |-> keypath, locales |-> found.locales, files |-> uniq(found.files)]>>
            \o analyzeUnusedKeysAll(cat, pf, Tail(idleKeys))

RECURSIVE analyzeUnusedKeys(_, _, _)
analyzeUnusedKeys(cat, pf, idleKeys) ==
  IF idleKeys = <<>> THEN <<>>
  ELSE LET keypath == Head(idleKeys)
           found == UnusedIn(cat, pf, keypath, 1, [locales |-> <<>>, files |-> <<>>])
       IN IF Len(found.locales) > 0
          THEN <<[keypath |-> keypath, locales |-> found.locales, files |-> uniq(found.files)]>>
               \o analyzeUnusedKeys(cat, pf, Tail(idleKeys))
          ELSE analyzeUnusedKeys(cat, pf, Tail(idleKeys))


(***************************************************************************)
(* Initial states.                                                         *)
(***************************************************************************)
NoMessage == [kind |-> "none", count |-> 0]

NoPending == [l \in Locales |-> NoFile]

NoPrefs == [l \in Locales |-> ""]

\* the invocations of the auto-detect command that may overlap
Invocations == {"first", "second"}

NoArgs == [locale |-> "", availablePaths |-> <<>>, by |-> ""]

\* window.activeTextEditor is undefined
NoEditor == [dirs |-> <<>>, base |-> ""]

\* showLocalePreferenceDialog has not returned
NoDialog == [selected |-> {}, result |-> NoPrefs, before |-> NoPrefs]

\* manageAutoSavePreferences was not invoked
NotManaging ==
  [pc |-> "idle", preferences |-> NoPrefs, locale |-> "", fileType |-> "",
   before |-> NoPrefs, currentPrefs |-> NoPrefs]

\* nothing was fired on the event bus yet
NoEvent == [keypath |-> 0, locale |-> "", action |-> "", by |-> ""]

\* no cleanup, preference or report command has started
CmdIdle ==
  /\ cpc = "idle" /\ confirmEach = FALSE /\ selectedKeys = <<>> /\ ci = 0
  /\ recordsToDelete = <<>> /\ removedCount = 0 /\ deleteCalls = <<>> /\ refreshes = 0
  /\ hasCache = FALSE
  /\ prompts = <<>> /\ shown = <<>>
  /\ apc = [c \in Invocations |-> "idle"] /\ detectedLocales = [c \in Invocations |-> <<>>]
  /\ todo = [c \in Invocations |-> <<>>]
  /\ currentPrefs = [c \in Invocations |-> NoPrefs] /\ appliedCount = [c \in Invocations |-> 0]
  /\ completedSetups = {}
  /\ rpc = "idle" /\ toWorkspace = FALSE /\ reportSets = NoSets
  /\ editor = NoEditor /\ resolveArgs = NoArgs /\ target = NoFile
  /\ lastEvent = NoEvent
  /\ manage = NotManaging
  /\ dialog = [c \in Invocations |-> NoDialog]

Configured == loader = TRUE /\ workspaceFolders = TRUE

RunIdle ==
  /\ pc = "idle" /\ i = 0 /\ j = 0 /\ token = FALSE /\ answer = "none"
  /\ pendingWrites = NoPending /\ listeners = {} /\ jobs = {}
  /\ translatedCount = 0 /\ delays = {} /\ message = NoMessage
  /\ written = {} /\ invoked = {} /\ calls = {} /\ processed = {} /\ unrouted = {} /\ completedKeys = {}
  /\ cancelIter = 0 /\ invokedAtCancel = 0
  /\ caught = {} /\ uncaught = {} /\ edits = 0
  /\ CmdIdle

NoRuns == [missing |-> 0, unused |-> 0]

NoOutputs ==
  /\ op = "none" /\ missingKeysInfo = <<>> /\ allMissingKeys = {} /\ unusedKeys = <<>>
  /\ runs = NoRuns

\* the records a locale can hold in the catalogs of the missing-key analysis
MissingRecs(l) ==
  IF l = sourceLanguage
  THEN {NoRec} \cup {Rec(v, Path(l, "frontend.json")) : v \in Values}
  ELSE {NoRec, Rec("", Path(l, "frontend.json")), Rec("Hi", Path(l, "frontend.json"))}

AbsentKeys(cat) == {k \in Keys : ~HasNode(cat, k)}

SortedSeq(S) == SelectSeq(SeqOfRange(1, MaxKeys), LAMBDA k : k \in S)

InitMissing ==
  /\ catalog \in [Keys -> {r \in [Locales -> UNION {MissingRecs(l) : l \in Locales}] :
                              \A l \in Locales : r[l] \in MissingRecs(l)}]
  /\ prefs \in {NoPrefs, [NoPrefs EXCEPT !["fr"] = "frontend"]}
  /\ \E m \in SUBSET AbsentKeys(catalog) : usage = [missing |-> m, idle |-> <<>>]
  /\ NoOutputs
  /\ RunIdle /\ Configured

\* the records a locale can hold in the catalogs of the unused-key analysis
UnusedRecs(l) ==
  IF l = "de" THEN {NoRec} ELSE {NoRec} \cup {Rec("Hi", f) : f \in FilesOf(l)}

InitUnused ==
  /\ catalog \in [Keys -> {r \in [Locales -> UNION {UnusedRecs(l) : l \in Locales}] :
                              \A l \in Locales : r[l] \in UnusedRecs(l)}]
  /\ prefs \in {p \in [Locales -> {""} \cup FileNames] : p["de"] = ""}
  /\ \E idle \in SUBSET Keys : usage = [missing |-> {}, idle |-> SortedSeq(idle)]
  /\ NoOutputs
  /\ RunIdle /\ Configured

(***************************************************************************)
(* The analyses as one-step operations on a catalog.                       *)
(***************************************************************************)
AnalyzeMissingKeys ==
  /\ LET r == analyzeMissingKeys(catalog, prefs, usage)
     IN /\ missingKeysInfo' = r.info
        /\ allMissingKeys' = r.all
  /\ op' = "analyzeMissingKeys"
  /\ UNCHANGED <<inputVars, unusedKeys, runs, runVars, cmdVars>>

AnalyzeMissingKeysLoose ==
  /\ LET r == analyzeMissingKeysLoose(catalog, prefs, usage)
     IN /\ missingKeysInfo' = r.info
        /\ allMissingKeys' = r.all
  /\ op' = "analyzeMissingKeysLoose"
  /\ UNCHANGED <<inputVars, unusedKeys, runs, runVars, cmdVars>>

WriteMissingKeys ==
  /\ \E usageOk \in BOOLEAN :
       /\ allMissingKeys' = writeMissingKeys(catalog, usage, usageOk).missing
       /\ op' = IF usageOk THEN "writeMissingKeys" ELSE "writeMissingKeysNoUsage"
  /\ UNCHANGED <<inputVars, missingKeysInfo, unusedKeys, runs, runVars, cmdVars>>

AnalyzeUnusedKeys ==
  /\ unusedKeys' = analyzeUnusedKeys(catalog, prefs, usage.idle)
  /\ op' = "analyzeUnusedKeys"
  /\ UNCHANGED <<inputVars, missingKeysInfo, allMissingKeys, runs, runVars, cmdVars>>

\* an analysis that also creates the empty records of the keys it reports
ReconcileMissingKeysPersists ==
  /\ runs.missing < MaxRuns
  /\ LET r == analyzeMissingKeys(catalog, prefs, usage)
     IN /\ missingKeysInfo' = r.info
        /\ allMissingKeys' = r.all
        /\ catalog' = [k \in Keys |-> [l \in Locales |->
                         IF \E n \in 1..Len(r.info) :
                              r.info[n].keypath = k /\ Includes(r.info[n].locales, l)
                         THEN Rec("", Path(l, "frontend.json")) ELSE catalog[k][l]]]
  /\ op' = "analyzeMissingKeys"
  /\ runs' = [runs EXCEPT !.missing = @ + 1]
  /\ UNCHANGED <<prefs, usage, unusedKeys, runVars, cmdVars>>

\* one more run of analyzeMissingKeys on the catalog as it stands
ReconcileMissingKeys ==
  /\ runs.missing < MaxRuns
  /\ LET r == analyzeMissingKeys(catalog, prefs, usage)
     IN /\ missingKeysInfo' = r.info
        /\ allMissingKeys' = r.all
  /\ op' = "analyzeMissingKeys"
  /\ runs' = [runs EXCEPT !.missing = @ + 1]
  /\ UNCHANGED <<inputVars, unusedKeys, runVars, cmdVars>>

\* one more run of analyzeUnusedKeys on the catalog as it stands
ReconcileUnusedKeys ==
  /\ runs.unused < MaxRuns
  /\ unusedKeys' = analyzeUnusedKeys(catalog, prefs, usage.idle)
  /\ op' = "analyzeUnusedKeys"
  /\ runs' = [runs EXCEPT !.unused = @ + 1]
  /\ UNCHANGED <<inputVars, missingKeysInfo, allMissingKeys, runVars, cmdVars>>

\* the records a locale can hold in the catalogs the analyses are repeated on
ReconcileRecs(l) ==
  CASE l = sourceLanguage ->
         {NoRec, Rec(" ", Path(l, "frontend.json")), Rec("Hi", Path(l, "frontend.json"))}
    [] l = "fr" ->
         {NoRec, Rec("Hi", Path(l, "frontend.json")), Rec("Hi", Path(l, "bot.json"))}
    [] OTHER -> {NoRec, Rec("Hi", Path(l, "frontend.json"))}

InitReconcile ==
  /\ catalog \in [Keys -> {r \in [Locales -> UNION {ReconcileRecs(l) : l \in Locales}] :
                              \A l \in Locales : r[l] \in ReconcileRecs(l)}]
  /\ prefs \in {NoPrefs, [NoPrefs EXCEPT !["fr"] = "frontend"]}
  /\ \E idle \in SUBSET Keys : usage = [missing |-> {}, idle |-> SortedSeq(idle)]
  /\ NoOutputs
  /\ RunIdle /\ Configured

NextReconcile == ReconcileMissingKeys \/ ReconcileUnusedKeys

SpecReconcile == InitReconcile /\ [][NextReconcile]_vars

NextMissing == AnalyzeMissingKeys \/ AnalyzeMissingKeysLoose \/ WriteMissingKeys

SpecMissing == InitMissing /\ [][NextMissing]_vars

NextUnused == AnalyzeUnusedKeys

SpecUnused == InitUnused /\ [][NextUnused]_vars


(***************************************************************************)
(* Properties of the missing-key analysis (SpecMissing).                   *)
(***************************************************************************)
IsBlank(v) == v = Undefined \/ Trim(v) = ""

BothCopies == {"analyzeMissingKeys", "analyzeMissingKeysLoose"}

InfoKeys == {missingKeysInfo[n].keypath : n \in 1..Len(missingKeysInfo)}

\* the target locales that hold no record of a key
LackingTargets(k) == {l \in TargetLocales : ~catalog[k][l].present}

\* the keys reconciliation has to report
Translatable == {k \in Keys : ~IsBlank(getValue(catalog, k, sourceLanguage)) /\ LackingTargets(k) # {}}

NoDuplicates(s) == \A a, b \in 1..Len(s) : s[a] = s[b] => a = b

\* C1: analyzeMissingKeys never produces a MissingKeyInfo whose sourceValue is blank or
\* absent, whatever the catalog.
C1_NoBlankSourceValue ==
  op \in BothCopies =>
    \A n \in 1..Len(missingKeysInfo) : ~IsBlank(missingKeysInfo[n].sourceValue)

\* C1 restricted to the copy that pre-filters the keys by their source value.
StrictNoBlankSourceValue ==
  op = "analyzeMissingKeys" =>
    \A n \in 1..Len(missingKeysInfo) : ~IsBlank(missingKeysInfo[n].sourceValue)

ExactResult ==
  /\ InfoKeys = Translatable
  /\ Len(missingKeysInfo) = Cardinality(Translatable)
  /\ \A n \in 1..Len(missingKeysInfo) :
       LET info == missingKeysInfo[n]
       IN /\ Range(info.locales) = LackingTargets(info.keypath)
          /\ NoDuplicates(info.locales)
          /\ info.sourceLocale = sourceLanguage
          /\ info.sourceValue = getValue(catalog, info.keypath, sourceLanguage)

\* C7: the output holds exactly one MissingKeyInfo per key with a non-blank source value
\* that lacks a record in some target locale, and none for another key; locales lists
\* exactly the target locales lacking the key, sourceLocale is the configured source
\* locale and sourceValue is the key's value in the source locale.
C7_ExactMissingKeyInfo == op \in BothCopies => ExactResult

\* C7 restricted to the copy that pre-filters the keys by their source value.
StrictExactMissingKeyInfo == op = "analyzeMissingKeys" => ExactResult

\* C8: the locales of a MissingKeyInfo are target locales only, never the source locale.
C8_OnlyTargetLocales ==
  op \in BothCopies =>
    \A n \in 1..Len(missingKeysInfo) :
      /\ sourceLanguage \notin Range(missingKeysInfo[n].locales)
      /\ Range(missingKeysInfo[n].locales) \subseteq TargetLocales

\* C8 restricted to the copy that pre-filters the keys by their source value.
StrictOnlyTargetLocales ==
  op = "analyzeMissingKeys" =>
    \A n \in 1..Len(missingKeysInfo) :
      /\ sourceLanguage \notin Range(missingKeysInfo[n].locales)
      /\ Range(missingKeysInfo[n].locales) \subseteq TargetLocales

\* the key universe an operation computes coverage over
UniverseOf(o) == IF o = "analyzeMissingKeys" THEN sourceKeysOf(catalog) ELSE loaderKeys(catalog)

CoverageMissing(keys) == UNION {Range(getCoverage(catalog, l, keys).missingKeys) : l \in Locales}

\* C9: the set of all missing keys of a reconciliation pass is the union of the usage
\* report's missing keys and of the coverage missingKeys of every active locale; a
\* code-detected missing key yields a MissingKeyInfo only with a non-blank source value.
C9_AllMissingKeysUnion ==
  /\ op \in BothCopies \cup {"writeMissingKeys"} =>
       allMissingKeys = usage.missing \cup CoverageMissing(UniverseOf(op))
  /\ op \in BothCopies =>
       \A k \in usage.missing \cap InfoKeys : ~IsBlank(getValue(catalog, k, sourceLanguage))

\* C9 for the report alone, where the usage report's keys are added to allMissingKeys.
ReportAllMissingKeysUnion ==
  op = "writeMissingKeys" =>
    allMissingKeys = usage.missing \cup CoverageMissing(loaderKeys(catalog))

ListedLocales(k) ==
  UNION {Range(unusedKeys[n].locales) : n \in {m \in 1..Len(unusedKeys) : unusedKeys[m].keypath = k}}

ListedFiles(k) ==
  UNION {Range(unusedKeys[n].files) : n \in {m \in 1..Len(unusedKeys) : unusedKeys[m].keypath = k}}

\* C10: for an idle key and an active locale that holds a record of it, the locale and
\* its file are listed in the key's UnusedKeyInfo iff the locale has no stored
\* preference or the basename of the file is the preferred one.
C10_UnusedRespectsPreferences ==
  op = "analyzeUnusedKeys" =>
    \A k \in Range(usage.idle) : \A l \in Locales :
      catalog[k][l].present =>
        LET f == catalog[k][l].file
            qualifies == prefs[l] = "" \/ f.base = prefs[l] \o ".json"
        IN /\ qualifies => (l \in ListedLocales(k) /\ f \in ListedFiles(k))
           /\ ~qualifies => (l \notin ListedLocales(k) /\ f \notin ListedFiles(k))

\* a key held only in bot.json of a locale that prefers frontend is not listed for that
\* locale, while it is listed for a locale without a preference
C10_Witness ==
  /\ op = "analyzeUnusedKeys"
  /\ \E k \in Range(usage.idle) :
       /\ prefs["en"] = "frontend" /\ catalog[k]["en"].present
       /\ catalog[k]["en"].file = Path("en", "bot.json")
       /\ "en" \notin ListedLocales(k)
       /\ prefs["fr"] = "" /\ catalog[k]["fr"].present /\ "fr" \in ListedLocales(k)


(***************************************************************************)
(* The auto-translate command: autoTranslateMissingKeys and                *)
(* performAutoTranslation (the copy that handles one locale at a time).    *)
(* One action per stretch of code between two awaits.                      *)
(***************************************************************************)
\* the records a locale can hold in the catalogs a run starts from
RunRecs(l) ==
  IF l = sourceLanguage
  THEN {Rec("Hi", Path(l, "frontend.json"))}
  ELSE {NoRec, Rec("Hi", Path(l, "frontend.json"))}

InitRun ==
  /\ catalog \in [Keys -> {r \in [Locales -> UNION {RunRecs(l) : l \in Locales}] :
                              \A l \in Locales : r[l] \in RunRecs(l)}]
  /\ prefs = NoPrefs
  /\ usage = [missing |-> {}, idle |-> <<>>]
  /\ NoOutputs
  /\ RunIdle
  /\ loader \in BOOLEAN /\ workspaceFolders = TRUE

keyInfo == missingKeysInfo[i]

\* the locale loops walking MissingKeyInfo.locales from its end
localeReversed == keyInfo.locales[Len(keyInfo.locales) + 1 - j]

locale == keyInfo.locales[j]

totalKeys == Len(missingKeysInfo)

\* the file localeLoader.requestMissingFilepath resolves for a locale
RoutedFile(l) == Path(l, "frontend.json")

\* autoTranslateMissingKeys, up to the first await
StartCommand ==
  /\ pc = "idle"
  /\ IF loader
     THEN pc' = "analyzing" /\ UNCHANGED message
     ELSE pc' = "done" /\ message' = [kind |-> "noLoader", count |-> 0]
  /\ UNCHANGED <<inputVars, analysisVars, i, j, token, answer, pendingWrites, listeners, jobs,
                 translatedCount, delays, historyVars, edits, cmdVars>>

\* the command without the test for an empty result
AnalyzeAlwaysConfirms ==
  /\ pc = "analyzing"
  /\ \E usageOk \in BOOLEAN :
       IF usageOk
       THEN LET r == analyzeMissingKeys(catalog, prefs, usage)
            IN /\ missingKeysInfo' = r.info
               /\ allMissingKeys' = r.all
               /\ op' = "analyzeMissingKeys"
               /\ pc' = "confirm" /\ UNCHANGED message
       ELSE /\ pc' = "done" /\ message' = [kind |-> "error", count |-> 0]
            /\ UNCHANGED <<op, missingKeysInfo, allMissingKeys>>
  /\ UNCHANGED <<inputVars, unusedKeys, runs, i, j, token, answer, pendingWrites, listeners,
                 jobs, translatedCount, delays, historyVars, edits, cmdVars>>

\* analyzeMissingKeys returns, or Analyst.analyzeUsage() throws into the top-level catch
Analyze ==
  /\ pc = "analyzing"
  /\ \E usageOk \in BOOLEAN :
       IF usageOk
       THEN LET r == analyzeMissingKeys(catalog, prefs, usage)
            IN /\ missingKeysInfo' = r.info
               /\ allMissingKeys' = r.all
               /\ op' = "analyzeMissingKeys"
               /\ IF Len(r.info) = 0
                  THEN pc' = "done" /\ message' = [kind |-> "nothingToDo", count |-> 0]
                  ELSE pc' = "confirm" /\ UNCHANGED message
       ELSE /\ pc' = "done" /\ message' = [kind |-> "error", count |-> 0]
            /\ UNCHANGED <<op, missingKeysInfo, allMissingKeys>>
  /\ UNCHANGED <<inputVars, unusedKeys, runs, i, j, token, answer, pendingWrites, listeners, jobs,
                 translatedCount, delays, historyVars, edits, cmdVars>>

\* a dialog that goes on unless the Cancel button was picked
ConfirmUnlessCancel ==
  /\ pc = "confirm"
  /\ \E result \in {"Translate All", "Cancel", "dismissed"} :
       /\ answer' = result
       /\ IF result # "Cancel"
          THEN pc' = "loopTop" /\ i' = 1
          ELSE pc' = "done" /\ UNCHANGED i
  /\ UNCHANGED <<inputVars, analysisVars, j, token, pendingWrites, listeners, jobs,
                 translatedCount, delays, message, historyVars, edits, cmdVars>>

\* showMissingKeysList: the answer to the modal dialog
Confirm ==
  /\ pc = "confirm"
  /\ \E result \in {"Translate All", "Cancel", "dismissed"} :
       /\ answer' = result
       /\ IF result = "Translate All"
          THEN pc' = "loopTop" /\ i' = 1
          ELSE pc' = "done" /\ UNCHANGED i
  /\ UNCHANGED <<inputVars, analysisVars, j, token, pendingWrites, listeners, jobs,
                 translatedCount, delays, message, historyVars, edits, cmdVars>>

\* a source-locale record is removed or blanked outside the command while the dialog is
\* open
ExternalEdit ==
  /\ pc = "confirm"
  /\ edits < MaxEdits
  /\ \E k \in Keys, l \in {sourceLanguage} : \E r \in MissingRecs(l) :
       /\ r # catalog[k][l]
       /\ r.present => Trim(r.value) = ""
       /\ catalog' = [catalog EXCEPT ![k][l] = r]
  /\ edits' = edits + 1
  /\ UNCHANGED cmdVars
  /\ UNCHANGED <<prefs, usage, analysisVars, loopVars, historyVars>>

\* a cancellation that also gives up the wait for the end notification
CancelAbortsWait ==
  /\ pc \in {"loopTop", "routing", "localeTop", "writing", "awaiting", "localeDelay", "keyDelay",
             "awaitingBatch"}
  /\ ~token
  /\ token' = TRUE
  /\ UNCHANGED answer
  /\ cancelIter' = IF pc = "loopTop" THEN i - 1 ELSE i
  /\ invokedAtCancel' = Cardinality(invoked)
  /\ pc' = IF pc = "awaiting" THEN "report" ELSE pc
  /\ UNCHANGED <<inputVars, analysisVars, i, j, pendingWrites, listeners, jobs,
                 translatedCount, delays, message, written, invoked, calls, processed, unrouted, completedKeys,
                 caught, uncaught, edits, cmdVars>>

\* the user presses the cancel button of the progress notification
Cancel ==
  /\ pc \in {"loopTop", "routing", "localeTop", "writing", "awaiting", "localeDelay", "keyDelay",
             "awaitingBatch"}
  /\ ~token
  /\ token' = TRUE
  /\ UNCHANGED answer
  /\ cancelIter' = IF pc = "loopTop" THEN i - 1 ELSE i
  /\ invokedAtCancel' = Cardinality(invoked)
  /\ UNCHANGED <<inputVars, analysisVars, pc, i, j, pendingWrites, listeners, jobs,
                 translatedCount, delays, message, written, invoked, calls, processed, unrouted, completedKeys,
                 caught, uncaught, edits, cmdVars>>

\* the outer loop without its cancellation test
isCancellationRequestedNever == FALSE

\* the test at the top of the outer loop
isCancellationRequested == token

\* for (i < length) fails, or the break on cancellation
ExitLoop ==
  /\ pc = "loopTop"
  /\ i > totalKeys \/ isCancellationRequested
  /\ pc' = "report"
  /\ UNCHANGED <<inputVars, analysisVars, i, j, token, answer, pendingWrites, listeners, jobs,
                 translatedCount, delays, message, historyVars, edits, cmdVars>>

\* the re-validation that only looks for the node
SourceOkNodeOnly(cat, k) == HasNode(cat, k)

\* the source node exists and its value in the source locale is not blank
SourceOk(cat, k) == HasNode(cat, k) /\ Truthy(Trim(getValue(cat, k, sourceLanguage)))

\* the source node is gone or its value is blank: continue
SkipKey ==
  /\ pc = "loopTop" /\ i <= totalKeys /\ ~isCancellationRequested
  /\ ~SourceOk(catalog, keyInfo.keypath)
  /\ i' = i + 1
  /\ UNCHANGED <<inputVars, analysisVars, pc, j, token, answer, pendingWrites, listeners, jobs,
                 translatedCount, delays, message, historyVars, edits, cmdVars>>

\* an exception of the per-key work outside the per-locale try: the outer catch
KeyFails ==
  /\ pc = "loopTop" /\ i <= totalKeys /\ ~isCancellationRequested
  /\ caught' = {<<i, "", "key">>}
  /\ i' = i + 1
  /\ UNCHANGED <<inputVars, analysisVars, pc, j, token, answer, pendingWrites, listeners, jobs,
                 translatedCount, delays, message, written, invoked, calls, processed, unrouted, completedKeys,
                 cancelIter, invokedAtCancel, uncaught, edits, cmdVars>>

\* the source value is there: start collecting the pending writes
BeginKey ==
  /\ pc = "loopTop" /\ i <= totalKeys /\ ~isCancellationRequested
  /\ SourceOk(catalog, keyInfo.keypath)
  /\ pc' = "routing" /\ j' = 1 /\ pendingWrites' = NoPending
  /\ caught' = {}
  /\ UNCHANGED <<inputVars, analysisVars, i, token, answer, listeners, jobs, translatedCount, delays,
                 message, written, invoked, calls, processed, unrouted, completedKeys, cancelIter, invokedAtCancel,
                 uncaught, edits, cmdVars>>

\* a first locale loop that falls back to a default file when none is resolved
RouteGuesses ==
  /\ pc = "routing"
  /\ \E outcome \in {"file", "none", "throws", "noLoader"} :
       /\ pendingWrites' = [pendingWrites EXCEPT ![locale] = RoutedFile(locale)]
       /\ unrouted' = IF outcome = "file" THEN unrouted ELSE unrouted \cup {<<i, locale>>}
       /\ caught' = IF outcome = "throws" THEN caught \cup {<<i, locale, "route">>} ELSE caught
  /\ IF j < Len(keyInfo.locales)
     THEN j' = j + 1 /\ UNCHANGED pc
     ELSE j' = 1 /\ pc' = "localeTop"
  /\ UNCHANGED <<inputVars, analysisVars, i, token, answer, listeners, jobs, translatedCount, delays,
                 message, written, invoked, calls, processed, completedKeys, cancelIter,
                 invokedAtCancel, uncaught, edits, cmdVars>>

\* one pass of the first locale loop: await localeLoader.requestMissingFilepath
Route ==
  /\ pc = "routing"
  /\ \E outcome \in {"file", "none", "throws", "noLoader"} :
       /\ pendingWrites' = IF outcome = "file"
                           THEN [pendingWrites EXCEPT ![locale] = RoutedFile(locale)]
                           ELSE pendingWrites
       /\ unrouted' = IF outcome = "file" THEN unrouted ELSE unrouted \cup {<<i, locale>>}
       /\ caught' = IF outcome = "throws" THEN caught \cup {<<i, locale, "route">>} ELSE caught
  /\ IF j < Len(keyInfo.locales)
     THEN j' = j + 1 /\ UNCHANGED pc
     ELSE j' = 1 /\ pc' = "localeTop"
  /\ UNCHANGED <<inputVars, analysisVars, i, token, answer, listeners, jobs, translatedCount, delays,
                 message, written, invoked, calls, processed, completedKeys, cancelIter,
                 invokedAtCancel, uncaught, edits, cmdVars>>

\* second locale loop: no pending write for the locale, continue
SkipLocale ==
  /\ pc = "localeTop" /\ j <= Len(keyInfo.locales)
  /\ pendingWrites[locale] = NoFile
  /\ processed' = processed \cup {<<i, locale>>}
  /\ UNCHANGED unrouted
  /\ j' = j + 1
  /\ UNCHANGED <<inputVars, analysisVars, pc, i, token, answer, pendingWrites, listeners, jobs,
                 translatedCount, delays, message, written, invoked, calls, completedKeys, cancelIter, invokedAtCancel,
                 caught, uncaught, edits, cmdVars>>

\* the write issued without await: the loop goes on to the next locale at once
IssueWriteNotAwaited ==
  /\ pc = "localeTop" /\ j <= Len(keyInfo.locales)
  /\ pendingWrites[locale] # NoFile
  /\ written' = written \cup {<<i, locale>>}
  /\ pc' = "localeTop" /\ j' = j + 1
  /\ UNCHANGED <<inputVars, analysisVars, i, token, answer, pendingWrites, listeners, jobs,
                 translatedCount, delays, message, invoked, calls, processed, unrouted, completedKeys, cancelIter,
                 invokedAtCancel, caught, uncaught, edits, cmdVars>>

\* second locale loop: loader.write([pendingWrite], false) is issued and awaited
IssueWrite ==
  /\ pc = "localeTop" /\ j <= Len(keyInfo.locales)
  /\ pendingWrites[locale] # NoFile
  /\ written' = written \cup {<<i, locale>>}
  /\ pc' = "writing"
  /\ UNCHANGED <<inputVars, analysisVars, i, j, token, answer, pendingWrites, listeners, jobs,
                 translatedCount, delays, message, invoked, calls, processed, unrouted, completedKeys, cancelIter, invokedAtCancel,
                 caught, uncaught, edits, cmdVars>>

\* the write rejects: the per-locale catch
WriteFails ==
  /\ pc = "writing"
  /\ caught' = caught \cup {<<i, locale, "write">>}
  /\ processed' = processed \cup {<<i, locale>>}
  /\ UNCHANGED unrouted
  /\ j' = j + 1 /\ pc' = "localeTop"
  /\ UNCHANGED <<inputVars, analysisVars, i, token, answer, pendingWrites, listeners, jobs,
                 translatedCount, delays, message, written, invoked, calls, completedKeys, cancelIter, invokedAtCancel,
                 uncaught, edits, cmdVars>>

\* the catalog after loader.write of one pending write
WriteRecord(cat, k, l, f) == [cat EXCEPT ![k][l] = Rec("", f)]

\* the listener without the test of the action
ListenerMatchesAnyAction(event, kp, l) ==
  event.keypath = kp /\ event.locale = l

\* the test of the listener registered for (keypath, locale)
ListenerMatches(event, kp, l) ==
  event.keypath = kp /\ event.locale = l /\ event.action = "end"

\* the stretch after the write without the registration of the listener
InvokedWithoutListener ==
  /\ pc = "writing"
  /\ catalog' = WriteRecord(catalog, keyInfo.keypath, locale, pendingWrites[locale])
  /\ HasNode(catalog', keyInfo.keypath)
  /\ listeners' = listeners
  /\ invoked' = invoked \cup {<<i, locale>>}
  /\ calls' = calls \cup {[index |-> i, records |-> <<locale>>, locales |-> <<locale>>]}
  /\ delays' = {}
  /\ UNCHANGED <<prefs, usage, analysisVars, i, token, answer, pendingWrites, translatedCount,
                 message, written, completedKeys, cancelIter, invokedAtCancel, edits, cmdVars>>

\* the write returned: the created node is looked up (it exists once the record is
\* written), the listener is registered and Translator.translateNodes is called for
\* the single node and the single locale
Invoked ==
  /\ pc = "writing"
  /\ catalog' = WriteRecord(catalog, keyInfo.keypath, locale, pendingWrites[locale])
  /\ HasNode(catalog', keyInfo.keypath)
  /\ listeners' = listeners \cup {<<keyInfo.keypath, locale>>}
  /\ invoked' = invoked \cup {<<i, locale>>}
  /\ calls' = calls \cup {[index |-> i, records |-> <<locale>>, locales |-> <<locale>>]}
  /\ delays' = {}
  /\ UNCHANGED <<prefs, usage, analysisVars, i, token, answer, pendingWrites, translatedCount,
                 message, written, completedKeys, cancelIter, invokedAtCancel, edits, cmdVars>>

\* the translator takes the job; the loop awaits translationPromise
InvokeAccepted ==
  /\ Invoked
  /\ jobs' = jobs \cup {<<i, locale, "queued">>}
  /\ pc' = "awaiting"
  /\ UNCHANGED <<j, processed, unrouted, caught, uncaught>>

\* translateNodes throws at the call: the per-locale catch logs it
InvokeThrows ==
  /\ Invoked
  /\ caught' = caught \cup {<<i, locale, "invoke">>}
  /\ processed' = processed \cup {<<i, locale>>}
  /\ UNCHANGED unrouted
  /\ j' = j + 1 /\ pc' = "localeTop"
  /\ UNCHANGED <<jobs, uncaught>>

\* translateNodes returns a promise that rejects: the call is not awaited, so no catch
\* block sees the rejection, no job exists and the loop awaits translationPromise
InvokeRejects ==
  /\ Invoked
  /\ uncaught' = uncaught \cup {<<i, locale, "invoke">>}
  /\ pc' = "awaiting"
  /\ UNCHANGED <<j, jobs, processed, unrouted, caught>>

\* a listener that disposes itself and forgets to resolve its promise
DeliverNoResolve(event) ==
  LET hit == {ls \in listeners : ListenerMatches(event, ls[1], ls[2])}
  IN /\ listeners' = listeners \ hit
     /\ UNCHANGED pc

\* Translator.onDidChange fires: every listener that matches the event disposes itself
\* and resolves the promise it belongs to
Deliver(event) ==
  LET hit == {ls \in listeners : ListenerMatches(event, ls[1], ls[2])}
  IN /\ listeners' = listeners \ hit
     /\ IF pc = "awaiting" /\ <<keyInfo.keypath, locale>> \in hit
        THEN pc' = "localeDelay"
        ELSE UNCHANGED pc

EventOf(job, action) ==
  [keypath |-> missingKeysInfo[job[1]].keypath, locale |-> job[2], action |-> action,
   by |-> "run"]

\* the translator emits {keypath, locale, action: 'start'} for a job
BackendStart ==
  /\ \E job \in jobs :
       /\ job[3] = "queued"
       /\ jobs' = (jobs \ {job}) \cup {<<job[1], job[2], "started">>}
       /\ Deliver(EventOf(job, "start"))
       /\ lastEvent' = EventOf(job, "start")
  /\ UNCHANGED <<inputVars, analysisVars, i, j, token, answer, pendingWrites,
                 translatedCount, delays, message, historyVars, edits, otherCmdVars>>

\* the translator emits {keypath, locale, action: 'end'} for a job
BackendEnd ==
  /\ \E job \in jobs :
       /\ job[3] = "started"
       /\ jobs' = jobs \ {job}
       /\ Deliver(EventOf(job, "end"))
       /\ lastEvent' = EventOf(job, "end")
  /\ UNCHANGED <<inputVars, analysisVars, i, j, token, answer, pendingWrites,
                 translatedCount, delays, message, historyVars, edits, otherCmdVars>>

\* setTimeout(resolve, LOCALE_DELAY_MS) fires: end of the pass of the locale loop
LocaleDelayElapsed ==
  /\ pc = "localeDelay"
  /\ processed' = processed \cup {<<i, locale>>}
  /\ UNCHANGED unrouted
  /\ j' = j + 1 /\ pc' = "localeTop"
  /\ delays' = delays \cup {"locale"}
  /\ UNCHANGED <<inputVars, analysisVars, i, token, answer, pendingWrites, listeners, jobs,
                 translatedCount, message, written, invoked, calls, completedKeys, cancelIter,
                 invokedAtCancel, caught, uncaught, edits, cmdVars>>

\* the locale loop is over: translatedCount++ and the delay between keys
FinishKey ==
  /\ pc = "localeTop" /\ j > Len(keyInfo.locales)
  /\ translatedCount' = translatedCount + 1
  /\ UNCHANGED delays
  /\ completedKeys' = completedKeys \cup {i}
  /\ IF i < totalKeys
     THEN pc' = "keyDelay" /\ UNCHANGED i
     ELSE pc' = "loopTop" /\ i' = i + 1
  /\ UNCHANGED <<inputVars, analysisVars, j, token, answer, pendingWrites, listeners, jobs,
                 message, written, invoked, calls, processed, unrouted, cancelIter, invokedAtCancel, caught, uncaught, edits, cmdVars>>

\* setTimeout(resolve, KEY_DELAY_MS) fires
KeyDelayElapsed ==
  /\ pc = "keyDelay"
  /\ i' = i + 1 /\ pc' = "loopTop"
  /\ delays' = delays \cup {"key"}
  /\ UNCHANGED <<inputVars, analysisVars, j, token, answer, pendingWrites, listeners, jobs,
                 translatedCount, message, historyVars, edits, cmdVars>>

\* window.showInformationMessage after withProgress
Report ==
  /\ pc = "report"
  /\ message' = [kind |-> "completed", count |-> translatedCount]
  /\ pc' = "done"
  /\ UNCHANGED <<inputVars, analysisVars, i, j, token, answer, pendingWrites, listeners, jobs,
                 translatedCount, delays, historyVars, edits, cmdVars>>

Next ==
  \/ StartCommand \/ Analyze \/ Confirm \/ ExternalEdit \/ Cancel
  \/ ExitLoop \/ SkipKey \/ KeyFails \/ BeginKey \/ Route
  \/ SkipLocale \/ IssueWrite \/ WriteFails
  \/ InvokeAccepted \/ InvokeThrows \/ InvokeRejects
  \/ BackendStart \/ BackendEnd \/ LocaleDelayElapsed
  \/ FinishKey \/ KeyDelayElapsed \/ Report

Spec == InitRun /\ [][Next]_vars

(***************************************************************************)
(* The run under the assumptions of the termination claim: the translator  *)
(* takes every invocation that returns and ends every job, every awaited   *)
(* call returns, every timer fires.  The user is under no obligation.      *)
(***************************************************************************)
NextLive ==
  \/ StartCommand \/ Analyze \/ Confirm \/ ExternalEdit \/ Cancel
  \/ ExitLoop \/ SkipKey \/ KeyFails \/ BeginKey \/ Route
  \/ SkipLocale \/ IssueWrite \/ WriteFails
  \/ InvokeAccepted \/ InvokeThrows
  \/ BackendStart \/ BackendEnd \/ LocaleDelayElapsed
  \/ FinishKey \/ KeyDelayElapsed \/ Report

\* the continuation of the async function runs once the awaited promise or timer is settled
Continues ==
  \/ ExitLoop \/ SkipKey \/ BeginKey \/ Route \/ SkipLocale \/ IssueWrite
  \/ LocaleDelayElapsed \/ FinishKey \/ KeyDelayElapsed \/ Report

\* loader.write returns or rejects
WriteSettles == WriteFails \/ InvokeAccepted \/ InvokeThrows

\* the translator works on its jobs
BackendWorks == BackendStart \/ BackendEnd

SpecLive ==
  /\ InitRun /\ [][NextLive]_vars
  /\ WF_vars(Continues) /\ WF_vars(WriteSettles) /\ WF_vars(BackendWorks)

(***************************************************************************)
(* Properties of the translate loop (Spec, SpecLive).                      *)
(***************************************************************************)
Translating ==
  pc \in {"loopTop", "routing", "localeTop", "writing", "awaiting", "localeDelay", "keyDelay"}

\* the body of iteration i is running (the delay between keys excluded)
InIteration(p) == p \in {"routing", "localeTop", "writing", "awaiting", "localeDelay"}

JobPairs(J) == {<<job[1], job[2]>> : job \in J}

C3_CancelAtKeypathGranularity ==
  [][/\ token => \A e \in (written' \ written) \cup (invoked' \ invoked) : e[1] <= cancelIter
     /\ (token /\ InIteration(pc) /\ ~InIteration(pc')) =>
          /\ i \in completedKeys'
          /\ \A n \in 1..Len(keyInfo.locales) : <<i, keyInfo.locales[n]>> \in processed']_vars

\* cancellation was requested during keypath 1 before any invocation; both locales of
\* keypath 1 were then translated and keypath 2 was never touched
C3_Witness ==
  /\ pc = "done" /\ token /\ cancelIter = 1 /\ invokedAtCancel = 0
  /\ totalKeys = 2
  /\ 1 \in completedKeys
  /\ {<<1, "fr">>, <<1, "de">>} \subseteq invoked
  /\ \A e \in written \cup invoked : e[1] = 1

\* the loop waits for an end notification that no job is going to send
Stalled == pc = "awaiting" /\ <<i, locale>> \notin JobPairs(jobs)

\* C4: a failure of the write, of the node lookup or of the invocation for one
\* (keypath, locale) is caught and logged, and it never stalls the run.
C4_FailureIsolation == uncaught = {} /\ ~Stalled

\* C5: a run that enters the translate loop leaves it and shows its terminal report,
\* provided the translator ends every job and every write returns.
C5_Termination == Translating ~> (pc = "done" /\ message.kind = "completed")

\* a run that translated something has shown its report
C5_Witness ==
  /\ pc = "done" /\ message.kind = "completed"
  /\ invoked # {} /\ message.count >= 1

\* C6: while the loop awaits the end notification of (keypath, locale), nothing moves
\* (no locale, no keypath, no write, no invocation, no report) except by the end of that
\* very job, cancellation included.
C6_WaitNotInterruptible ==
  [][pc = "awaiting" =>
       \/ /\ pc' = "awaiting" /\ i' = i /\ j' = j
          /\ translatedCount' = translatedCount /\ message' = message
          /\ written' = written /\ invoked' = invoked /\ processed' = processed
       \/ /\ <<i, locale, "started">> \in jobs
          /\ <<i, locale>> \notin JobPairs(jobs')]_vars

\* cancellation was requested during the wait and the loop still waits
C6_Witness ==
  /\ pc = "awaiting" /\ token /\ cancelIter = i /\ invokedAtCancel = Cardinality(invoked)
  /\ <<i, locale>> \in JobPairs(jobs)

(***************************************************************************)
(* Order of the work of a run (Spec).                                      *)
(***************************************************************************)
PositionIn(seq, x) == CHOOSE n \in 1..Len(seq) : seq[n] = x

\* the pair <<index, locale>> comes before the pair b in the order of MissingKeyInfo[]
\* and of MissingKeyInfo.locales
Before(a, b) ==
  \/ a[1] < b[1]
  \/ /\ a[1] = b[1]
     /\ PositionIn(missingKeysInfo[a[1]].locales, a[2]) < PositionIn(missingKeysInfo[b[1]].locales, b[2])

\* C12: every translation invocation is for a (keypath, locale) pair not invoked before
\* in the run, every invocation issued earlier is for a pair that comes before it in
\* the order of MissingKeyInfo[] and MissingKeyInfo.locales, and no invocation of an
\* earlier keypath is still outstanding when it is issued.
C12_ProcessingOrder ==
  [][Invoked =>
       /\ Cardinality(invoked' \ invoked) = 1
       /\ \A new \in invoked' \ invoked :
            /\ \A e \in invoked : Before(e, new)
            /\ \A job \in jobs : job[1] >= new[1]]_vars

\* a finished run that invoked the translator for two locales of the first keypath and
\* then for the second keypath
C12_Witness ==
  /\ pc = "done"
  /\ {<<1, "fr">>, <<1, "de">>} \subseteq invoked
  /\ \E l \in TargetLocales : <<2, l>> \in invoked

\* the listener a job's notifications are meant for
ListenerOf(job) == <<missingKeysInfo[job[1]].keypath, job[2]>>

AnalyzeLoose ==
  /\ pc = "analyzing"
  /\ \E usageOk \in BOOLEAN :
       IF usageOk
       THEN LET r == analyzeMissingKeysLoose(catalog, prefs, usage)
            IN /\ missingKeysInfo' = r.info
               /\ allMissingKeys' = r.all
               /\ op' = "analyzeMissingKeysLoose"
               /\ IF Len(r.info) = 0
                  THEN pc' = "done" /\ message' = [kind |-> "nothingToDo", count |-> 0]
                  ELSE pc' = "confirm" /\ UNCHANGED message
       ELSE /\ pc' = "done" /\ message' = [kind |-> "error", count |-> 0]
            /\ UNCHANGED <<op, missingKeysInfo, allMissingKeys>>
  /\ UNCHANGED <<inputVars, unusedKeys, runs, i, j, token, answer, pendingWrites, listeners, jobs,
                 translatedCount, delays, historyVars, edits, cmdVars>>

\* a record of a target locale created outside the command while the dialog is open
ExternalEditTarget ==
  /\ pc = "confirm"
  /\ edits < MaxEdits
  /\ \E k \in Keys, l \in TargetLocales :
       /\ ~catalog[k][l].present
       /\ catalog' = [catalog EXCEPT ![k][l] = Rec("", Path(l, "frontend.json"))]
  /\ edits' = edits + 1
  /\ UNCHANGED cmdVars
  /\ UNCHANGED <<prefs, usage, analysisVars, loopVars, historyVars>>

\* keyInfo.locales.map(...).filter(record => record.filepath), as the locales of the records
recordsToTranslate(cat, info) ==
  SelectSeq(info.locales, LAMBDA l : getFilepathByKey(cat, info.keypath, l) # NoFile)

\* no node for the keypath: continue
LooseSkipKey ==
  /\ pc = "loopTop" /\ i <= totalKeys /\ ~isCancellationRequested
  /\ ~HasNode(catalog, keyInfo.keypath)
  /\ i' = i + 1
  /\ UNCHANGED <<inputVars, analysisVars, pc, j, token, answer, pendingWrites, listeners, jobs,
                 translatedCount, delays, message, historyVars, edits, cmdVars>>

\* the locales of the keypath were all walked and recordsToTranslate is empty: nothing
\* is called and nothing is counted
LooseNoRecords ==
  /\ pc = "loopTop" /\ i <= totalKeys /\ ~isCancellationRequested
  /\ HasNode(catalog, keyInfo.keypath)
  /\ recordsToTranslate(catalog, keyInfo) = <<>>
  /\ completedKeys' = completedKeys \cup {i}
  /\ i' = i + 1
  /\ UNCHANGED <<inputVars, analysisVars, pc, j, token, answer, pendingWrites, listeners, jobs,
                 translatedCount, delays, message, written, invoked, calls, processed, unrouted,
                 cancelIter, invokedAtCancel, caught, uncaught, edits, cmdVars>>

\* await Translator.translateNodes(loader, recordsToTranslate, sourceLocale, keyInfo.locales)
LooseInvoke ==
  /\ pc = "loopTop" /\ i <= totalKeys /\ ~isCancellationRequested
  /\ HasNode(catalog, keyInfo.keypath)
  /\ LET records == recordsToTranslate(catalog, keyInfo)
     IN /\ records # <<>>
        /\ calls' = calls \cup {[index |-> i, records |-> records, locales |-> keyInfo.locales]}
        /\ invoked' = invoked \cup {<<i, records[n]>> : n \in 1..Len(records)}
  /\ pc' = "awaitingBatch"
  /\ UNCHANGED <<inputVars, analysisVars, i, j, token, answer, pendingWrites, listeners, jobs,
                 translatedCount, delays, message, written, processed, unrouted, completedKeys, cancelIter,
                 invokedAtCancel, caught, uncaught, edits, cmdVars>>

\* the awaited call returns: translatedCount++
LooseBatchReturns ==
  /\ pc = "awaitingBatch"
  /\ translatedCount' = translatedCount + 1
  /\ UNCHANGED delays
  /\ completedKeys' = completedKeys \cup {i}
  /\ i' = i + 1 /\ pc' = "loopTop"
  /\ UNCHANGED <<inputVars, analysisVars, j, token, answer, pendingWrites, listeners, jobs,
                 message, written, invoked, calls, processed, unrouted, cancelIter, invokedAtCancel,
                 caught, uncaught, edits, cmdVars>>

\* the awaited call rejects: the catch of the keypath logs it
LooseBatchRejects ==
  /\ pc = "awaitingBatch"
  /\ caught' = {<<i, "", "invoke">>}
  /\ i' = i + 1 /\ pc' = "loopTop"
  /\ UNCHANGED <<inputVars, analysisVars, j, token, answer, pendingWrites, listeners, jobs,
                 translatedCount, delays, message, written, invoked, calls, processed, unrouted, completedKeys,
                 cancelIter, invokedAtCancel, uncaught, edits, cmdVars>>

NextLoose ==
  \/ StartCommand \/ AnalyzeLoose \/ Confirm \/ ExternalEdit \/ ExternalEditTarget \/ Cancel
  \/ ExitLoop \/ LooseSkipKey \/ LooseNoRecords \/ LooseInvoke
  \/ LooseBatchReturns \/ LooseBatchRejects \/ Report

SpecLoose == InitRun /\ [][NextLoose]_vars

\* C14: every call of Translator.translateNodes is for one record and one target locale,
\* the locale of that record.
C14_SingleRecordSingleLocale ==
  \A c \in calls :
    /\ Len(c.records) = 1 /\ Len(c.locales) = 1
    /\ c.records = c.locales
    /\ c.locales[1] \in TargetLocales

(***************************************************************************)
(* Writes of the run (Spec).                                               *)
(***************************************************************************)
\* the run is suspended at await loader.write(...)
WriteInFlight(p) == p = "writing"

\* C15: the run issues a write only while none of its writes is in flight and then
\* waits for it; while a write is in flight it issues neither a write nor a translation
\* invocation, and an invocation is issued only on the return of the write of its pair.
C15_WritesSerial ==
  [][/\ Cardinality(written' \ written) <= 1
     /\ written' # written => (~WriteInFlight(pc) /\ WriteInFlight(pc'))
     /\ (WriteInFlight(pc) /\ WriteInFlight(pc')) => (written' = written /\ invoked' = invoked)
     /\ invoked' # invoked =>
          /\ WriteInFlight(pc) /\ ~WriteInFlight(pc')
          /\ \A p \in invoked' \ invoked :
               p \in written /\ catalog'[missingKeysInfo[p[1]].keypath][p[2]].present]_vars

\* the second write of a run is in flight after the first write was followed by an
\* invocation
C15_Witness ==
  /\ WriteInFlight(pc)
  /\ Cardinality(written) >= 2
  /\ invoked # {} /\ <<i, locale>> \in written \ invoked

(***************************************************************************)
(* Pairs without a target file (Spec).                                     *)
(***************************************************************************)
\* C16: for a (keypath, locale) pair no target file was resolved for, the run issues no
\* write and no translation invocation and creates no record; the pass of the locale
\* loop for such a pair goes on to the next locale without a failure, and the loop over
\* the keypaths goes on after it.
C16_RoutingFailureSkips ==
  [][/\ \A p \in unrouted' : p \notin written' /\ p \notin invoked'
     /\ \A p \in unrouted :
          catalog'[missingKeysInfo[p[1]].keypath][p[2]] = catalog[missingKeysInfo[p[1]].keypath][p[2]]
     /\ \A p \in (processed' \ processed) \cap unrouted :
          /\ pc' = "localeTop" /\ i' = i /\ j' = j + 1
          /\ caught' = caught /\ uncaught' = uncaught]_vars

\* a finished run in which no file was resolved for the first locale of the first keypath
\* and the translator was invoked for its second locale and for the second keypath
C16_Witness ==
  /\ pc = "done" /\ message.kind = "completed"
  /\ <<1, "fr">> \in unrouted \cap processed
  /\ <<1, "de">> \in invoked
  /\ \E l \in TargetLocales : <<2, l>> \in invoked

(***************************************************************************)
(* Re-validation of the source value (Spec).                               *)
(***************************************************************************)
\* the source-locale record of the keypath of MissingKeyInfo n is absent or blank
SourceBlank(n) == IsBlank(getValue(catalog, missingKeysInfo[n].keypath, sourceLanguage))

\* C17: no write and no translation invocation is issued for a keypath whose
\* source-locale record is absent or blank, and when the turn of such a keypath comes
\* the loop goes on to the next keypath without ending the run.
C17_SourceRevalidated ==
  [][/\ \A p \in (written' \cup invoked') \ (written \cup invoked) : ~SourceBlank(p[1])
     /\ (/\ pc = "loopTop" /\ i <= totalKeys /\ ~token
         /\ SourceBlank(i)
         /\ <<pc', i'>> # <<pc, i>>) =>
          /\ pc' = "loopTop" /\ i' = i + 1
          /\ written' = written /\ invoked' = invoked /\ catalog' = catalog
          /\ message' = message /\ uncaught' = uncaught]_vars

\* a finished run whose first keypath lost its source value after the analysis: nothing
\* was written or invoked for it, and the second keypath was translated
C17_Witness ==
  /\ pc = "done" /\ message.kind = "completed"
  /\ totalKeys = 2 /\ SourceBlank(1)
  /\ \A p \in written \cup invoked : p[1] = 2
  /\ \E l \in TargetLocales : <<2, l>> \in invoked

(***************************************************************************)
(* The confirmation step and the states of a run (Spec).                   *)
(***************************************************************************)
Declined == answer \in {"Cancel", "dismissed"}

\* C18: once the confirmation dialog is answered with Cancel or dismissed, the run is
\* over: it has issued and issues no write and no translation invocation, registers no
\* listener and changes no record of the catalog.
C18_DeclineMutatesNothing ==
  [][Declined' =>
       /\ pc' = "done"
       /\ written' = {} /\ invoked' = {} /\ calls' = {} /\ listeners' = {} /\ jobs' = {}
       /\ catalog' = catalog]_vars

\* the dialog was shown for a non-empty analysis result and was dismissed
C18_Witness ==
  /\ answer = "dismissed" /\ pc = "done"
  /\ missingKeysInfo # <<>>
  /\ written = {} /\ listeners = {}

\* the analysis of the run returned
Analyzed == op = "analyzeMissingKeys"

\* C19: once the analysis has returned zero MissingKeyInfo, the run is over with the
\* nothing-to-do message: no confirmation was asked for, and no write, translation
\* invocation or listener registration took place.
C19_NothingToDo ==
  (Analyzed /\ missingKeysInfo = <<>>) =>
    /\ pc = "done" /\ message.kind = "nothingToDo"
    /\ answer = "none"
    /\ written = {} /\ invoked = {} /\ listeners = {} /\ jobs = {}

\* the analysis of a catalog that lacks nothing has returned
C19_Witness ==
  /\ Analyzed /\ missingKeysInfo = <<>>
  /\ \A k \in Keys, l \in Locales : catalog[k][l].present
  /\ message.kind = "nothingToDo"

\* the state of the run in the terms of the state machine
StateOf(p) ==
  CASE p = "idle" -> "Idle"
    [] p = "analyzing" -> "Analyzing"
    [] p = "confirm" -> "AwaitingConfirmation"
    [] p = "done" -> "Terminal"
    [] OTHER -> "Translating"

\* the terminal state a finished run is in, by the message it ended with
Outcome(m) ==
  CASE m.kind \in {"completed", "nothingToDo"} -> "Completed"
    [] m.kind \in {"error", "noLoader"} -> "Failed"
    [] OTHER -> "Cancelled"

StateOrder ==
  {<<"Idle", "Analyzing">>, <<"Idle", "Terminal">>,
   <<"Analyzing", "AwaitingConfirmation">>, <<"Analyzing", "Terminal">>,
   <<"AwaitingConfirmation", "Translating">>, <<"AwaitingConfirmation", "Terminal">>,
   <<"Translating", "Terminal">>}

\* the outer loop was left by the break on token.isCancellationRequested
CancelObserved(p, n) ==
  p \in {"report", "done"} /\ answer = "Translate All" /\ token /\ n <= totalKeys

RunStateOrderStep ==
  /\ StateOf(pc') # StateOf(pc) => <<StateOf(pc), StateOf(pc')>> \in StateOrder
  /\ StateOf(pc') = "Translating" => (missingKeysInfo' # <<>> /\ answer' = "Translate All")
  /\ pc = "done" => (pc' = "done" /\ message' = message)

\* C20: the run moves through Idle, Analyzing, AwaitingConfirmation, Translating and a
\* terminal state in this order; it is in Translating only with a non-empty analysis
\* result and the answer Translate All; a terminal state is never left; and a run whose
\* outer loop was left on a cancellation request ends in Cancelled, not in Completed.
C20_RunStateMachine ==
  [][/\ RunStateOrderStep
     /\ (pc' = "done" /\ CancelObserved(pc', i')) => Outcome(message') = "Cancelled"]_vars

\* C20 without its clause on the terminal state of a cancelled run.
RunStateOrder == [][RunStateOrderStep]_vars

(***************************************************************************)
(* The final report (Spec, SpecLoose).                                     *)
(***************************************************************************)
\* C21: translatedCount is at any time the number of keypaths whose locales were all
\* walked without an exception at key level, and the count of the final report is that
\* number; a keypath skipped by the re-validation of its source is not among them.
C21_CountIsKeypathsAttempted ==
  /\ translatedCount = Cardinality(completedKeys)
  /\ message.kind = "completed" => message.count = Cardinality(completedKeys)
  /\ \A n \in completedKeys : HasNode(catalog, missingKeysInfo[n].keypath)

(***************************************************************************)
(* The delays of a run (Spec).                                             *)
(***************************************************************************)
\* the invocation issued last for the keypath of MissingKeyInfo n threw into the
\* per-locale catch
LastInvocationThrew(n) ==
  \E p \in invoked :
    /\ p[1] = n /\ <<n, p[2], "invoke">> \in caught
    /\ \A q \in invoked : q[1] = n => ~Before(p, q)

ThrottleStep ==
  /\ (pc = "awaiting" /\ pc' # "awaiting") => pc' = "localeDelay"
  /\ (pc = "localeDelay" /\ pc' # "localeDelay") => "locale" \in delays'
  /\ (i' = i + 1 /\ i \in completedKeys' /\ i < totalKeys) =>
       (pc = "keyDelay" /\ "key" \in delays')
  /\ pc' = "keyDelay" => i' < totalKeys

\* C22: a translation invocation that is not the first of the run is issued only after
\* a delay since the invocation before it; the wait for an end notification is followed
\* by the delay between locales; the loop goes from a finished keypath to the next one
\* through the delay between keys, and no delay between keys is taken after the last
\* keypath.
C22_Throttle ==
  [][/\ (Invoked /\ invoked # {}) => delays # {}
     /\ ThrottleStep]_vars

\* C22 with its first clause for the invocations that follow one that did not throw at
\* the call.
ThrottleAfterCompletedLocale ==
  [][/\ (Invoked /\ invoked # {}) => (delays # {} \/ LastInvocationThrew(i))
     /\ ThrottleStep]_vars


(***************************************************************************)
(* The cleanup command: cleanupUnusedKeys, its dialogs and performCleanup. *)
(* One action per stretch of code between two awaits.                      *)
(***************************************************************************)
Shown(cmd, kind, count, records) ==
  [cmd |-> cmd, kind |-> kind, count |-> count, records |-> records, by |-> ""]

\* the records a locale can hold in the catalogs a cleanup starts from
CleanupRecs(l) ==
  IF l = "de" THEN {NoRec}
  ELSE IF l = "fr" THEN {NoRec, Rec("Hi", Path(l, "frontend.json")), Rec("Hi", Path(l, "bot.json"))}
  ELSE {Rec("Hi", Path(l, "frontend.json"))}

InitCleanup ==
  /\ catalog \in [Keys -> {r \in [Locales -> UNION {CleanupRecs(l) : l \in Locales}] :
                              \A l \in Locales : r[l] \in CleanupRecs(l)}]
  /\ prefs \in {NoPrefs, [NoPrefs EXCEPT !["fr"] = "frontend"]}
  /\ \E idle \in SUBSET Keys : usage = [missing |-> {}, idle |-> SortedSeq(idle)]
  /\ NoOutputs
  /\ RunIdle
  /\ loader \in BOOLEAN /\ workspaceFolders = TRUE

\* the cleanup command without the test for a loader
CleanupStartUnguarded ==
  /\ cpc = "idle"
  /\ cpc' = "options"
  /\ UNCHANGED <<inputVars, analysisVars, runVars, configVars, prefVars, reportVars, resolveVars, manageVars,
                 confirmEach, selectedKeys, ci, recordsToDelete, removedCount, deleteCalls, refreshes, hasCache,
                 prompts, shown>>

\* cleanupUnusedKeys, up to the first await
CleanupStart ==
  /\ cpc = "idle"
  /\ IF loader
     THEN cpc' = "options" /\ UNCHANGED shown
     ELSE cpc' = "done" /\ shown' = Append(shown, Shown("cleanup", "noLoader", 0, 0))
  /\ UNCHANGED <<inputVars, analysisVars, runVars, configVars, prefVars, reportVars, resolveVars, manageVars, confirmEach, selectedKeys, ci,
                 recordsToDelete, removedCount, deleteCalls, refreshes, hasCache, prompts>>

\* showCleanupOptions returns
CleanupOptions ==
  /\ cpc = "options"
  /\ \E pick \in {"dismissed", "all", "each"} :
       IF pick = "dismissed"
       THEN cpc' = "done" /\ UNCHANGED confirmEach
       ELSE cpc' = "analyzing" /\ confirmEach' = (pick = "each")
  /\ UNCHANGED <<inputVars, analysisVars, runVars, configVars, prefVars, reportVars, resolveVars, manageVars, selectedKeys, ci,
                 recordsToDelete, removedCount, deleteCalls, refreshes, hasCache, prompts, shown>>

\* analyzeUnusedKeys returns, or Analyst.analyzeUsage() throws into the top-level catch
CleanupAnalyze ==
  /\ cpc = "analyzing"
  /\ \E usageOk \in BOOLEAN :
       IF usageOk
       THEN LET r == analyzeUnusedKeys(catalog, prefs, usage.idle)
            IN /\ unusedKeys' = r
               /\ op' = "analyzeUnusedKeys"
               /\ hasCache' \in BOOLEAN
               /\ IF Len(r) = 0
                  THEN /\ cpc' = "done"
                       /\ shown' = Append(shown, Shown("cleanup", "clean", 0, 0))
                  ELSE cpc' = "dialog" /\ UNCHANGED shown
       ELSE /\ cpc' = "done"
            /\ shown' = Append(shown, Shown("cleanup", "error", 0, 0))
            /\ UNCHANGED <<op, unusedKeys, hasCache>>
  /\ UNCHANGED <<inputVars, missingKeysInfo, allMissingKeys, runs, runVars, configVars, prefVars,
                 reportVars, resolveVars, manageVars, confirmEach, selectedKeys, ci, recordsToDelete,
                 removedCount, deleteCalls, refreshes, prompts>>

\* the items of a sequence at the indices of S, in the order of the sequence
RECURSIVE PickFrom(_, _, _)
PickFrom(seq, S, n) ==
  IF n > Len(seq) THEN <<>>
  ELSE (IF n \in S THEN <<seq[n]>> ELSE <<>>) \o PickFrom(seq, S, n + 1)

\* showUnusedKeysDialog returns: the picked items, or null when dismissed or nothing is picked
CleanupSelect ==
  /\ cpc = "dialog"
  /\ \E S \in SUBSET (1..Len(unusedKeys)) :
       IF S = {}
       THEN cpc' = "done" /\ UNCHANGED <<selectedKeys, ci>>
       ELSE /\ selectedKeys' = PickFrom(unusedKeys, S, 1)
            /\ ci' = 1
            /\ cpc' = "loop"
  /\ UNCHANGED <<inputVars, analysisVars, runVars, configVars, prefVars, reportVars, resolveVars, manageVars, confirmEach,
                 recordsToDelete, removedCount, deleteCalls, refreshes, hasCache, prompts, shown>>

\* Object.values(node.locales) of the node of a keypath
RecordsOf(cat, keypath) ==
  SelectSeq([n \in 1..Len(visibleLocales) |-> <<keypath, visibleLocales[n]>>],
            LAMBDA r : cat[r[1]][r[2]].present)

\* performCleanup: the key is queued when its node exists
Queue(keypath) ==
  IF HasNode(catalog, keypath)
  THEN /\ recordsToDelete' = recordsToDelete \o RecordsOf(catalog, keypath)
       /\ removedCount' = removedCount + 1
  ELSE UNCHANGED <<recordsToDelete, removedCount>>

\* a loop that deletes the records of each key as it passes it
CleanupQueueKeyDeletes ==
  /\ cpc = "loop" /\ ci <= Len(selectedKeys) /\ ~confirmEach
  /\ Queue(selectedKeys[ci].keypath)
  /\ deleteCalls' = Append(deleteCalls, RecordsOf(catalog, selectedKeys[ci].keypath))
  /\ ci' = ci + 1
  /\ UNCHANGED <<inputVars, analysisVars, runVars, configVars, prefVars, reportVars, resolveVars, manageVars,
                 cpc, confirmEach, selectedKeys, refreshes, hasCache, prompts, shown>>

\* performCleanup without per-key confirmation: one pass of the loop
CleanupQueueKey ==
  /\ cpc = "loop" /\ ci <= Len(selectedKeys) /\ ~confirmEach
  /\ Queue(selectedKeys[ci].keypath)
  /\ ci' = ci + 1
  /\ UNCHANGED <<inputVars, analysisVars, runVars, configVars, prefVars, reportVars, resolveVars, manageVars, cpc, confirmEach, selectedKeys,
                 deleteCalls, refreshes, hasCache, prompts, shown>>

\* performCleanup with per-key confirmation: the prompt of one key is shown
CleanupPrompt ==
  /\ cpc = "loop" /\ ci <= Len(selectedKeys) /\ confirmEach
  /\ cpc' = "prompt"
  /\ prompts' = Append(prompts, <<ci, "none">>)
  /\ UNCHANGED <<inputVars, analysisVars, runVars, configVars, prefVars, reportVars, resolveVars, manageVars, confirmEach, selectedKeys, ci,
                 recordsToDelete, removedCount, deleteCalls, refreshes, hasCache, shown>>

\* a prompt that takes every answer but Skip and Cancel All for Remove
CleanupAnswerUnlessSkip ==
  /\ cpc = "prompt"
  /\ \E confirm \in {"Remove", "Skip", "Cancel All", "dismissed"} :
       /\ prompts' = [prompts EXCEPT ![Len(prompts)] = <<ci, confirm>>]
       /\ IF confirm = "Cancel All"
          THEN cpc' = "collected" /\ UNCHANGED <<ci, recordsToDelete, removedCount>>
          ELSE /\ cpc' = "loop"
               /\ ci' = ci + 1
               /\ IF confirm # "Skip"
                  THEN Queue(selectedKeys[ci].keypath)
                  ELSE UNCHANGED <<recordsToDelete, removedCount>>
  /\ UNCHANGED <<inputVars, analysisVars, runVars, configVars, prefVars, reportVars, resolveVars, manageVars, confirmEach, selectedKeys,
                 deleteCalls, refreshes, hasCache, shown>>

\* the prompt returns
CleanupAnswer ==
  /\ cpc = "prompt"
  /\ \E confirm \in {"Remove", "Skip", "Cancel All", "dismissed"} :
       /\ prompts' = [prompts EXCEPT ![Len(prompts)] = <<ci, confirm>>]
       /\ IF confirm = "Cancel All"
          THEN cpc' = "collected" /\ UNCHANGED <<ci, recordsToDelete, removedCount>>
          ELSE /\ cpc' = "loop"
               /\ ci' = ci + 1
               /\ IF confirm = "Remove"
                  THEN Queue(selectedKeys[ci].keypath)
                  ELSE UNCHANGED <<recordsToDelete, removedCount>>
  /\ UNCHANGED <<inputVars, analysisVars, runVars, configVars, prefVars, reportVars, resolveVars, manageVars, confirmEach, selectedKeys,
                 deleteCalls, refreshes, hasCache, shown>>

\* the loop of performCleanup is left and DeleteRecords is called when records are queued
CleanupDelete ==
  /\ \/ cpc = "loop" /\ ci > Len(selectedKeys)
     \/ cpc = "collected"
  /\ IF Len(recordsToDelete) > 0
     THEN cpc' = "deleting" /\ deleteCalls' = Append(deleteCalls, recordsToDelete)
     ELSE cpc' = "done" /\ UNCHANGED deleteCalls
  /\ UNCHANGED <<inputVars, analysisVars, runVars, configVars, prefVars, reportVars, resolveVars, manageVars, confirmEach, selectedKeys, ci,
                 recordsToDelete, removedCount, refreshes, hasCache, prompts, shown>>

\* DeleteRecords: the catalog without the records of a batch
DeleteRecords(cat, records) ==
  [k \in Keys |-> [l \in Locales |-> IF <<k, l>> \in Range(records) THEN NoRec ELSE cat[k][l]]]

\* DeleteRecords resolves: the refresh is scheduled when the Analyst has a cache
DeleteReturns ==
  /\ cpc = "deleting"
  /\ catalog' = DeleteRecords(catalog, recordsToDelete)
  /\ refreshes' = IF hasCache THEN refreshes + 1 ELSE refreshes
  /\ shown' = Append(shown, Shown("cleanup", "completed", removedCount, Len(recordsToDelete)))
  /\ cpc' = "done"
  /\ UNCHANGED <<prefs, usage, analysisVars, runVars, configVars, prefVars, reportVars, resolveVars, manageVars, confirmEach, selectedKeys, ci,
                 recordsToDelete, removedCount, deleteCalls, hasCache, prompts>>

\* a rejected deletion that schedules the refresh all the same
DeleteThrowsRefreshes ==
  /\ cpc = "deleting"
  /\ refreshes' = IF hasCache THEN refreshes + 1 ELSE refreshes
  /\ shown' = Append(shown, Shown("cleanup", "deleteError", 0, 0))
  /\ cpc' = "done"
  /\ UNCHANGED <<inputVars, analysisVars, runVars, configVars, prefVars, reportVars, resolveVars, manageVars,
                 confirmEach, selectedKeys, ci, recordsToDelete, removedCount, deleteCalls, hasCache,
                 prompts>>

\* DeleteRecords rejects
DeleteThrows ==
  /\ cpc = "deleting"
  /\ shown' = Append(shown, Shown("cleanup", "deleteError", 0, 0))
  /\ cpc' = "done"
  /\ UNCHANGED <<inputVars, analysisVars, runVars, configVars, prefVars, reportVars, resolveVars, manageVars, confirmEach, selectedKeys, ci,
                 recordsToDelete, removedCount, deleteCalls, refreshes, hasCache, prompts>>

\* a record is removed from or added to the catalog while the command waits for a dialog
CleanupExternalEdit ==
  /\ cpc \in {"options", "dialog", "prompt"}
  /\ edits < MaxEdits
  /\ \E k \in Keys, l \in {"en", "fr"} :
       catalog' = [catalog EXCEPT ![k][l] = IF catalog[k][l].present THEN NoRec
                                            ELSE Rec("Hi", Path(l, "frontend.json"))]
  /\ edits' = edits + 1
  /\ UNCHANGED <<prefs, usage, analysisVars, loopVars, historyVars, cmdVars>>

NextCleanup ==
  \/ CleanupStart \/ CleanupOptions \/ CleanupAnalyze \/ CleanupSelect
  \/ CleanupQueueKey \/ CleanupPrompt \/ CleanupAnswer
  \/ CleanupDelete \/ DeleteReturns \/ DeleteThrows
  \/ CleanupExternalEdit

SpecCleanup == InitCleanup /\ [][NextCleanup]_vars


(***************************************************************************)
(* The auto-detect command: autoDetectAndApplyPreferences and              *)
(* AutoSaveToFileManager.setupAutoSavePreference.  The command can be      *)
(* invoked again while an earlier invocation waits at an await.            *)
(***************************************************************************)
ShownBy(c, kind, count) ==
  [cmd |-> "autoDetect", kind |-> kind, count |-> count, records |-> 0, by |-> c]

Detected(l, hasFrontend, hasBot) == [locale |-> l, hasFrontend |-> hasFrontend, hasBot |-> hasBot]

\* the results detectLocalesFromWorkspace can have in the workspaces of the model; the
\* last one is a workspace that holds i18n/fr/frontend.json and locales/fr/bot.json
Detections ==
  {<<>>} \cup {<<Detected("fr", TRUE, b)>> : b \in BOOLEAN}
         \cup {<<Detected("fr", TRUE, FALSE), Detected("fr", FALSE, TRUE)>>}
         \cup {<<Detected("fr", TRUE, b), Detected("de", FALSE, TRUE)>> : b \in BOOLEAN}

InitPrefs ==
  /\ catalog = [k \in Keys |-> [l \in Locales |-> NoRec]]
  /\ prefs \in {NoPrefs, [NoPrefs EXCEPT !["en"] = "bot"]}
  /\ usage = [missing |-> {}, idle |-> <<>>]
  /\ NoOutputs
  /\ RunIdle
  /\ loader = TRUE /\ workspaceFolders \in BOOLEAN

\* autoDetectAndApplyPreferences, up to the first await
DetectStart(c) ==
  /\ apc[c] = "idle"
  /\ IF workspaceFolders
     THEN apc' = [apc EXCEPT ![c] = "detecting"] /\ UNCHANGED shown
     ELSE /\ apc' = [apc EXCEPT ![c] = "done"]
          /\ shown' = Append(shown, ShownBy(c, "noWorkspace", 0))
  /\ UNCHANGED <<inputVars, analysisVars, runVars, configVars, cleanupVars, reportVars, resolveVars, manageVars, dialog,
                 detectedLocales, todo, currentPrefs, appliedCount, completedSetups>>

\* detectLocalesFromWorkspace returns, or a file-system call throws into the top-level catch
DetectLocales(c) ==
  /\ apc[c] = "detecting"
  /\ \/ \E d \in Detections :
          /\ detectedLocales' = [detectedLocales EXCEPT ![c] = d]
          /\ IF Len(d) = 0
             THEN /\ apc' = [apc EXCEPT ![c] = "done"]
                  /\ shown' = Append(shown, ShownBy(c, "noLocales", 0))
             ELSE apc' = [apc EXCEPT ![c] = "dialog"] /\ UNCHANGED shown
     \/ /\ apc' = [apc EXCEPT ![c] = "done"]
        /\ shown' = Append(shown, ShownBy(c, "error", 0))
        /\ UNCHANGED detectedLocales
  /\ UNCHANGED <<inputVars, analysisVars, runVars, configVars, cleanupVars, reportVars, resolveVars, manageVars, dialog,
                 todo, currentPrefs, appliedCount, completedSetups>>

\* the preferences showLocalePreferenceDialog can return for a selected locale: the only
\* file it has, or the picked one of the two, or none when that pick is dismissed
Choices(d) ==
  IF d.hasFrontend /\ d.hasBot THEN {"frontend", "bot", ""}
  ELSE IF d.hasFrontend THEN {"frontend"}
  ELSE {"bot"}

\* the loop over detectedLocales: the locales with a preference in the result
RECURSIVE Preferred(_, _)
Preferred(detected, result) ==
  IF detected = <<>> THEN <<>>
  ELSE LET l == Head(detected).locale
       IN (IF Truthy(result[l]) THEN <<<<l, result[l]>>>> ELSE <<>>)
            \o Preferred(Tail(detected), result)

\* the preferences after the pass of showLocalePreferenceDialog for one selected item:
\* its only file, or the picked one of the two, or no change when that pick is dismissed
RECURSIVE Results(_, _)
Results(selectedLocales, preferences) ==
  IF selectedLocales = <<>> THEN {preferences}
  ELSE LET selected == Head(selectedLocales)
       IN UNION {Results(Tail(selectedLocales),
                         IF choice = "" THEN preferences
                         ELSE [preferences EXCEPT ![selected.locale] = choice]) :
                   choice \in Choices(selected)}

\* showLocalePreferenceDialog returns: null, or the preferences of the selected locales
PreferenceDialog(c) ==
  /\ apc[c] = "dialog"
  /\ \E selected \in SUBSET (1..Len(detectedLocales[c])) :
       IF selected = {}
       THEN /\ apc' = [apc EXCEPT ![c] = "done"]
            /\ dialog' = [dialog EXCEPT ![c] = [selected |-> {}, result |-> NoPrefs, before |-> prefs]]
            /\ UNCHANGED todo
       ELSE \E result \in Results(PickFrom(detectedLocales[c], selected, 1), NoPrefs) :
              /\ todo' = [todo EXCEPT ![c] = Preferred(detectedLocales[c], result)]
              /\ dialog' = [dialog EXCEPT ![c] = [selected |-> selected, result |-> result,
                                                  before |-> prefs]]
              /\ apc' = [apc EXCEPT ![c] = "applying"]
  /\ UNCHANGED <<inputVars, analysisVars, runVars, configVars, cleanupVars, reportVars, resolveVars, manageVars,
                 detectedLocales, currentPrefs, appliedCount, completedSetups, shown>>

\* setupAutoSavePreference up to its await: the stored map is read, the entry is set in
\* the copy and the copy is handed to config.update
SetupRead(c) ==
  /\ apc[c] = "applying" /\ todo[c] # <<>>
  /\ currentPrefs' = [currentPrefs EXCEPT ![c] = [prefs EXCEPT ![Head(todo[c])[1]] = Head(todo[c])[2]]]
  /\ apc' = [apc EXCEPT ![c] = "updating"]
  /\ UNCHANGED <<inputVars, analysisVars, runVars, configVars, cleanupVars, reportVars, resolveVars, manageVars, dialog,
                 detectedLocales, todo, appliedCount, completedSetups, shown>>

\* config.update resolves: the stored map is the copy that was handed over
SetupWrite(c) ==
  /\ apc[c] = "updating"
  /\ prefs' = currentPrefs[c]
  /\ completedSetups' = completedSetups \cup {Head(todo[c])}
  /\ appliedCount' = [appliedCount EXCEPT ![c] = @ + 1]
  /\ todo' = [todo EXCEPT ![c] = Tail(@)]
  /\ apc' = [apc EXCEPT ![c] = "applying"]
  /\ UNCHANGED <<catalog, usage, analysisVars, runVars, configVars, cleanupVars, reportVars,
                 resolveVars, manageVars, dialog, detectedLocales, currentPrefs, shown>>

\* config.update rejects into the top-level catch
UpdateRejects(c) ==
  /\ apc[c] = "updating"
  /\ apc' = [apc EXCEPT ![c] = "done"]
  /\ shown' = Append(shown, ShownBy(c, "error", 0))
  /\ UNCHANGED <<inputVars, analysisVars, runVars, configVars, cleanupVars, reportVars, resolveVars, manageVars, dialog,
                 detectedLocales, todo, currentPrefs, appliedCount, completedSetups>>

\* the loop over detectedLocales is left
ApplyDone(c) ==
  /\ apc[c] = "applying" /\ todo[c] = <<>>
  /\ apc' = [apc EXCEPT ![c] = "done"]
  /\ shown' = Append(shown, ShownBy(c, "applied", appliedCount[c]))
  /\ UNCHANGED <<inputVars, analysisVars, runVars, configVars, cleanupVars, reportVars, resolveVars, manageVars, dialog,
                 detectedLocales, todo, currentPrefs, appliedCount, completedSetups>>

AutoDetect(c) ==
  \/ DetectStart(c) \/ DetectLocales(c) \/ PreferenceDialog(c)
  \/ SetupRead(c) \/ SetupWrite(c) \/ UpdateRejects(c) \/ ApplyDone(c)

NextPrefs == \E c \in Invocations : AutoDetect(c)

SpecPrefs == InitPrefs /\ [][NextPrefs]_vars


(***************************************************************************)
(* The report commands: WriteMissingKeysToFile.writeMissingKeys and         *)
(* writeMissingKeysToWorkspace.                                            *)
(***************************************************************************)
\* either command, up to the first await
ReportStart ==
  /\ rpc = "idle"
  /\ \E w \in BOOLEAN :
       /\ toWorkspace' = w
       /\ IF w /\ ~workspaceFolders
          THEN rpc' = "done" /\ shown' = Append(shown, Shown("report", "noWorkspace", 0, 0))
          ELSE IF ~loader
          THEN rpc' = "done" /\ shown' = Append(shown, Shown("report", "noLoader", 0, 0))
          ELSE rpc' = "analyzing" /\ UNCHANGED shown
  /\ UNCHANGED <<inputVars, analysisVars, runVars, configVars, cleanupVars, prefVars, resolveVars, manageVars,
                 reportSets>>

\* a report that gives up with an error when the usage analysis fails
ReportAnalyzeAborts ==
  /\ rpc = "analyzing"
  /\ \E usageOk \in BOOLEAN :
       LET r == IF usageOk THEN writeMissingKeys(catalog, usage, TRUE) ELSE NoSets
       IN /\ allMissingKeys' = r.missing
          /\ reportSets' = r
          /\ op' = IF usageOk THEN "writeMissingKeys" ELSE "writeMissingKeysNoUsage"
          /\ IF ~usageOk
             THEN rpc' = "done" /\ shown' = Append(shown, Shown("report", "error", 0, 0))
             ELSE IF r.missing = {} /\ r.empty = {}
             THEN rpc' = "done" /\ shown' = Append(shown, Shown("report", "nothing", 0, 0))
             ELSE IF toWorkspace
             THEN \E writeOk \in BOOLEAN :
                    /\ rpc' = "done"
                    /\ shown' = Append(shown, Shown("report", IF writeOk THEN "saved" ELSE "error",
                                                    Cardinality(r.missing), 0))
             ELSE rpc' = "saveDialog" /\ UNCHANGED shown
  /\ UNCHANGED <<inputVars, missingKeysInfo, unusedKeys, runs, runVars, configVars, cleanupVars,
                 prefVars, resolveVars, manageVars, toWorkspace>>

\* the keys are collected; writeMissingKeysToWorkspace writes its file right away,
\* writeMissingKeys asks where to save first
ReportAnalyze ==
  /\ rpc = "analyzing"
  /\ \E usageOk \in BOOLEAN :
       LET r == writeMissingKeys(catalog, usage, usageOk)
       IN /\ allMissingKeys' = r.missing
          /\ reportSets' = r
          /\ op' = IF usageOk THEN "writeMissingKeys" ELSE "writeMissingKeysNoUsage"
          /\ IF r.missing = {} /\ r.empty = {}
             THEN rpc' = "done" /\ shown' = Append(shown, Shown("report", "nothing", 0, 0))
             ELSE IF toWorkspace
             THEN \E writeOk \in BOOLEAN :
                    /\ rpc' = "done"
                    /\ shown' = Append(shown, Shown("report", IF writeOk THEN "saved" ELSE "error",
                                                    Cardinality(r.missing), 0))
             ELSE rpc' = "saveDialog" /\ UNCHANGED shown
  /\ UNCHANGED <<inputVars, missingKeysInfo, unusedKeys, runs, runVars, configVars, cleanupVars,
                 prefVars, resolveVars, manageVars, toWorkspace>>

\* showSaveDialog returns
ReportSave ==
  /\ rpc = "saveDialog"
  /\ rpc' = "done"
  /\ \E saveUri \in {"none", "file", "unwritable"} :
       /\ reportSets' = [reportSets EXCEPT !.saveUri = saveUri]
       /\ IF saveUri = "none" THEN UNCHANGED shown
          ELSE shown' = Append(shown, Shown("report", IF saveUri = "file" THEN "saved" ELSE "error",
                                            Cardinality(allMissingKeys), 0))
  /\ UNCHANGED <<inputVars, analysisVars, runVars, configVars, cleanupVars, prefVars, resolveVars, manageVars,
                 toWorkspace>>

NextReport == ReportStart \/ ReportAnalyze \/ ReportSave

(***************************************************************************)
(* The four commands, invoked one at a time: a command takes a step only   *)
(* while no other command has started.  The auto-translate command is      *)
(* followed up to its confirmation dialog.                                 *)
(***************************************************************************)
Started ==
  {c \in {"autoTranslate", "cleanup", "autoDetect", "report"} :
     \/ c = "autoTranslate" /\ pc # "idle"
     \/ c = "cleanup" /\ cpc # "idle"
     \/ c = "autoDetect" /\ \E d \in Invocations : apc[d] # "idle"
     \/ c = "report" /\ rpc # "idle"}

InitCommands ==
  /\ catalog \in [Keys -> {r \in [Locales -> UNION {RunRecs(l) : l \in Locales}] :
                              \A l \in Locales : r[l] \in RunRecs(l)}]
  /\ prefs = NoPrefs
  /\ usage = [missing |-> {}, idle |-> SortedSeq(Keys)]
  /\ NoOutputs
  /\ RunIdle
  /\ loader \in BOOLEAN /\ workspaceFolders \in BOOLEAN

NextCommands ==
  \/ Started \subseteq {"autoTranslate"} /\ (StartCommand \/ Analyze \/ Confirm)
  \/ Started \subseteq {"cleanup"} /\ NextCleanup
  \/ Started \subseteq {"autoDetect"} /\ AutoDetect("first")
  \/ Started \subseteq {"report"} /\ NextReport

SpecCommands == InitCommands /\ [][NextCommands]_vars


(***************************************************************************)
(* Properties of the commands' entry (SpecCommands).                       *)
(***************************************************************************)
\* the configuration a command needs is absent
Absent(c) ==
  \/ c \in {"autoTranslate", "cleanup"} /\ ~loader
  \/ c = "autoDetect" /\ ~workspaceFolders
  \/ c = "report" /\ (~loader \/ (toWorkspace /\ ~workspaceFolders))

\* a command is over and its only message is the report of the absent configuration
ReportedAbsent(c) ==
  \/ /\ c = "autoTranslate" /\ pc = "done" /\ shown = <<>>
     /\ message = [kind |-> "noLoader", count |-> 0]
  \/ /\ c = "cleanup" /\ cpc = "done" /\ message = NoMessage
     /\ shown = <<Shown("cleanup", "noLoader", 0, 0)>>
  \/ /\ c = "autoDetect" /\ apc["first"] = "done" /\ message = NoMessage
     /\ shown = <<ShownBy("first", "noWorkspace", 0)>>
  \/ /\ c = "report" /\ rpc = "done" /\ message = NoMessage
     /\ shown = <<Shown("report", IF toWorkspace /\ ~workspaceFolders THEN "noWorkspace" ELSE "noLoader",
                        0, 0)>>

\* C23: a command whose configuration (the catalog loader for auto-translate, cleanup and
\* report, the workspace folder for auto-detect and the workspace report) is absent takes
\* one step only: it shows the one message that reports the condition and is over, with
\* the catalog, the preferences, the analysis results and every write, deletion,
\* translation and preference-update history untouched.
C23_ConfigurationAbsent ==
  [][\A c \in {"autoTranslate", "cleanup", "autoDetect", "report"} :
       (c \in Started' /\ Absent(c)') =>
         /\ Started = {}
         /\ ReportedAbsent(c)'
         /\ UNCHANGED <<inputVars, analysisVars, historyVars, deleteCalls, recordsToDelete, refreshes,
                        prompts, completedSetups, currentPrefs>>]_vars

\* the cleanup command was invoked without a loader and has reported it
C23_Witness ==
  /\ ~loader /\ cpc = "done" /\ shown = <<Shown("cleanup", "noLoader", 0, 0)>>
  /\ op = "none" /\ deleteCalls = <<>>


(***************************************************************************)
(* Terminal reporting of the auto-translate command (Spec).                *)
(***************************************************************************)
\* the steps of the run itself and of the collaborators it waits for; the user's
\* cancellation and edits of the catalog are not among them
RunStep ==
  \/ ExitLoop \/ SkipKey \/ KeyFails \/ BeginKey \/ Route \/ SkipLocale \/ IssueWrite
  \/ WriteFails \/ InvokeAccepted \/ InvokeThrows \/ InvokeRejects
  \/ BackendStart \/ BackendEnd \/ LocaleDelayElapsed \/ FinishKey \/ KeyDelayElapsed \/ Report

\* a run that was in Translating has ended with the one message that reports the count,
\* whatever failed on the way, and every record whose write returned is still in the
\* catalog
ReportedOnce ==
  (pc = "done" /\ answer = "Translate All") =>
     /\ message = [kind |-> "completed", count |-> translatedCount]
     /\ \A w \in invoked : catalog[missingKeysInfo[w[1]].keypath][w[2]].present

\* C24: a run that has entered Translating ends with exactly one terminal message: as
\* long as it has not shown it, the run or a collaborator it waits for can take a further
\* step, whatever failed before (a failure that no catch block sees ends the run with
\* the error message), and once it is over its message reports the count and the
\* records it wrote are still in place.
C24_TerminalReporting ==
  /\ (Translating \/ pc = "report") => ENABLED RunStep
  /\ ReportedOnce


(***************************************************************************)
(* Properties of the cleanup command (SpecCleanup).                        *)
(***************************************************************************)
\* the selected key at index n was confirmed: passed by the loop in batch mode, answered
\* Remove in per-item mode
Confirmed(n) ==
  IF confirmEach THEN <<n, "Remove">> \in Range(prompts) ELSE n < ci

\* the locales that hold a record of a key
Holders(k) == {l \in Locales : catalog[k][l].present}

\* the records of the confirmed keys, key by key in the order of the selection
RECURSIVE ConfirmedRecords(_)
ConfirmedRecords(n) ==
  IF n > Len(selectedKeys) THEN <<>>
  ELSE (IF Confirmed(n) THEN RecordsOf(catalog, selectedKeys[n].keypath) ELSE <<>>)
         \o ConfirmedRecords(n + 1)

\* the number of records the confirmed keys hold
RECURSIVE ConfirmedCount(_)
ConfirmedCount(n) ==
  IF n > Len(selectedKeys) THEN 0
  ELSE (IF Confirmed(n) THEN Cardinality(Holders(selectedKeys[n].keypath)) ELSE 0)
         + ConfirmedCount(n + 1)

\* the deletion call returned
Deleted == cpc = "done" /\ shown # <<>> /\ shown[Len(shown)].kind = "completed"

\* at most one DeleteRecords call per run; it is made as soon as some record is queued
\* and submits the records of all confirmed keys together, as many as these keys hold
\* (the catalog cannot change during the loop unless a prompt is open)
SingleDeletion ==
  /\ Len(deleteCalls) <= 1
  /\ (cpc \in {"deleting", "done"} /\ recordsToDelete # <<>>) => deleteCalls = <<recordsToDelete>>
  /\ (cpc = "deleting" /\ (~confirmEach \/ edits = 0)) =>
        /\ recordsToDelete = ConfirmedRecords(1)
        /\ Len(recordsToDelete) = ConfirmedCount(1)
  /\ deleteCalls # <<>> => \A r \in Range(deleteCalls[1]) :
                             \E n \in 1..Len(selectedKeys) : Confirmed(n) /\ selectedKeys[n].keypath = r[1]
  /\ Deleted => /\ \A r \in Range(deleteCalls[1]) : ~catalog[r[1]][r[2]].present
                /\ shown[Len(shown)].records = Len(deleteCalls[1])
  /\ ~Deleted => refreshes = 0

\* C25: the cleanup makes at most one deletion call per run, which submits the records of
\* all confirmed keys together (k keypaths with n records each: k*n records), and once
\* the call has returned exactly one refresh of the usage report is scheduled.
C25_BatchCleanup ==
  /\ SingleDeletion
  /\ Deleted => refreshes = 1

\* C25 as amended: the refresh is scheduled once when the usage analyzer holds a cache
\* and not at all when it holds none.
C25_BatchCleanupWithCache ==
  /\ SingleDeletion
  /\ Deleted => refreshes = (IF hasCache THEN 1 ELSE 0)

\* a batch cleanup of two keys with two records each has deleted four records in one
\* call and scheduled one refresh
C25_Witness ==
  /\ Deleted /\ ~confirmEach /\ edits = 0
  /\ Len(selectedKeys) = 2 /\ Len(deleteCalls) = 1 /\ Len(deleteCalls[1]) = 4
  /\ {r[1] : r \in Range(deleteCalls[1])} = {1, 2}
  /\ hasCache /\ refreshes = 1


\* the index of a keypath in the selection
Selected(k) == {n \in 1..Len(selectedKeys) : selectedKeys[n].keypath = k}

\* the prompts shown so far are those of the keys 1, 2, ... in this order, and a prompt
\* answered Cancel All is the last one
PromptsInOrder ==
  /\ \A n \in 1..Len(prompts) : prompts[n][1] = n
  /\ \A n \in 1..Len(prompts) : prompts[n][2] = "Cancel All" => (n = Len(prompts) /\ cpc \notin {"loop", "prompt"})
  /\ \A n \in 1..Len(prompts) : prompts[n][2] = "none" => (n = Len(prompts) /\ cpc = "prompt")

\* C26: with per-item confirmation only the keys answered Remove are deleted: a key
\* answered Skip or dismissed is not, after Cancel All at item j no prompt follows and no
\* key from j on is deleted, while the keys answered Remove before j are; in batch mode
\* no prompt is shown and every selected key is deleted.  Deleted means: submitted in the
\* deletion call and, once it has returned, without a record in the catalog.
C26_PerItemConfirmation ==
  [][/\ PromptsInOrder'
     /\ ~confirmEach' => prompts' = <<>>
     /\ deleteCalls' # <<>> =>
          \A r \in Range(deleteCalls'[1]) : confirmEach' =>
            \E n \in Selected(r[1])' : n <= Len(prompts') /\ prompts'[n] = <<n, "Remove">>
     /\ (cpc' = "deleting" /\ (~confirmEach \/ edits = 0)) =>
          \A n \in 1..Len(selectedKeys) :
            (~confirmEach \/ (n <= Len(prompts) /\ prompts[n][2] = "Remove")) =>
               \A l \in Locales : catalog[selectedKeys[n].keypath][l].present =>
                                    <<selectedKeys[n].keypath, l>> \in Range(deleteCalls'[1])
     /\ (cpc = "deleting" /\ cpc' = "done") =>
          \A k \in Keys, l \in Locales :
            catalog'[k][l] # catalog[k][l] =>
              /\ <<k, l>> \in Range(deleteCalls[1]) /\ ~catalog'[k][l].present
              /\ confirmEach => \E n \in Selected(k) : n <= Len(prompts) /\ prompts[n][2] = "Remove"
     /\ (cpc = "deleting" /\ cpc' = "done" /\ ~confirmEach /\ catalog' # catalog) =>
          \A n \in 1..Len(selectedKeys) : \A l \in Locales : ~catalog'[selectedKeys[n].keypath][l].present
    ]_vars

\* the first key was answered Remove and the second Cancel All: the first is gone from
\* the catalog, the second is still there
C26_Witness ==
  /\ confirmEach /\ Deleted
  /\ prompts = << <<1, "Remove">>, <<2, "Cancel All">> >>
  /\ Holders(selectedKeys[1].keypath) = {}
  /\ Holders(selectedKeys[2].keypath) # {}


(***************************************************************************)
(* The file routing resolver: the two copies of                            *)
(* AutoSaveToFileManager.getTargetFileForExtraction.  One takes the        *)
(* available paths of the locale, the other the folder of the catalogs.    *)
(***************************************************************************)
\* a path segment of the form [a-z]{2}(-[A-Z]{2})?
LocaleLike(segment) == segment \in {"en", "fr", "de", "ui"}

\* extractLocaleFromPath: the first directory of the path that looks like a locale, "" for
\* no match
RECURSIVE extractLocaleFromPath(_)
extractLocaleFromPath(dirs) ==
  IF dirs = <<>> THEN ""
  ELSE IF LocaleLike(Head(dirs)) THEN Head(dirs)
  ELSE extractLocaleFromPath(Tail(dirs))

\* path.basename(currentFile, '.json') of the file of the editor
EditorFileName(e) == basename(Path("", e.base))

\* Array.prototype.find over the available paths, NoFile for undefined
RECURSIVE FindByName(_, _)
FindByName(paths, name) ==
  IF paths = <<>> THEN NoFile
  ELSE IF basename(Head(paths)) = name THEN Head(paths)
  ELSE FindByName(Tail(paths), name)

\* the copy that is given the available paths
getTargetFileForExtraction(l, availablePaths, pf, e) ==
  LET preference == pf[l]
      preferredFile == FindByName(availablePaths, preference)
      fileName == EditorFileName(e)
  IN IF Truthy(preference) /\ preferredFile # NoFile THEN preferredFile
     ELSE IF e = NoEditor THEN NoFile
     ELSE IF extractLocaleFromPath(e.dirs) = l /\ fileName \in {"frontend", "bot"}
          THEN FindByName(availablePaths, fileName)
          ELSE NoFile

\* the copy that is given the folder of the catalogs and joins the path itself
getTargetFileInFolder(l, pf, e) ==
  LET preference == pf[l]
      fileName == EditorFileName(e)
  IN IF Truthy(preference) THEN Path(l, preference \o ".json")
     ELSE IF e = NoEditor THEN NoFile
     ELSE IF extractLocaleFromPath(e.dirs) = l /\ fileName \in {"frontend", "bot"}
          THEN Path(l, fileName \o ".json")
          ELSE NoFile

\* the files an editor can show in the workspaces of the model
EditorFiles ==
  {NoEditor} \cup {[dirs |-> d, base |-> b] :
                     d \in {<<"i18n", "fr">>, <<"i18n", "de">>, <<"ui", "i18n", "fr">>, <<"src">>},
                     b \in {"frontend.json", "bot.json", "other.json"}}

\* the available paths a caller can pass for a locale: files of the folder of the locale
AvailablePaths(l) ==
  {SelectSeq(<<Path(l, "frontend.json"), Path(l, "bot.json"), Path(l, "frontend.yaml")>>,
             LAMBDA f : f \in S) : S \in SUBSET FilesOf(l)}

InitResolve ==
  /\ catalog = [k \in Keys |-> [l \in Locales |-> NoRec]]
  /\ prefs \in {p \in [Locales -> {""} \cup FileNames] : p["en"] = "" /\ p["de"] = ""}
  /\ usage = [missing |-> {}, idle |-> <<>>]
  /\ NoOutputs
  /\ RunIdle
  /\ Configured

\* another file gets the focus, or the editor is closed
SwitchEditor ==
  /\ editor' \in EditorFiles \ {editor}
  /\ UNCHANGED <<inputVars, analysisVars, runVars, configVars, cleanupVars, shown, prefVars,
                 reportVars, manageVars, resolveArgs, target>>

\* a call of the copy that is given the available paths
Resolve ==
  /\ \E l \in {"fr", "de"} : \E paths \in AvailablePaths(l) :
       /\ resolveArgs' = [locale |-> l, availablePaths |-> paths, by |-> "availablePaths"]
       /\ target' = getTargetFileForExtraction(l, paths, prefs, editor)
  /\ UNCHANGED <<inputVars, analysisVars, runVars, configVars, cleanupVars, shown, prefVars,
                 reportVars, manageVars, editor>>

\* a call of the copy that is given the folder, for a locale with these available paths
ResolveInFolder ==
  /\ \E l \in {"fr", "de"} : \E paths \in AvailablePaths(l) :
       /\ resolveArgs' = [locale |-> l, availablePaths |-> paths, by |-> "basePath"]
       /\ target' = getTargetFileInFolder(l, prefs, editor)
  /\ UNCHANGED <<inputVars, analysisVars, runVars, configVars, cleanupVars, shown, prefVars,
                 reportVars, manageVars, editor>>

NextResolve == SwitchEditor \/ Resolve \/ ResolveInFolder

SpecResolve == InitResolve /\ [][NextResolve]_vars

\* C27: the resolver returns none or one of the available paths of the call.
C27_ResultIsAvailable ==
  resolveArgs # NoArgs => (target = NoFile \/ target \in Range(resolveArgs.availablePaths))

\* C27 for the copy that is given the available paths.
ResultIsAvailableGivenPaths ==
  (resolveArgs # NoArgs /\ resolveArgs.by = "availablePaths") =>
     (target = NoFile \/ target \in Range(resolveArgs.availablePaths))


\* the available path of a call with a given file name, NoFile if there is none
Available(a, name) ==
  IF \E f \in Range(a.availablePaths) : f.base = name \o ".json"
  THEN CHOOSE f \in Range(a.availablePaths) : f.base = name \o ".json"
  ELSE NoFile

\* the result the resolution order gives, ctxLocale being the locale of the editing context
InOrder(a, pf, e, ctxLocale) ==
  IF pf[a.locale] # "" /\ Available(a, pf[a.locale]) # NoFile THEN Available(a, pf[a.locale])
  ELSE IF /\ e # NoEditor /\ ctxLocale = a.locale
          /\ e.base \in {"frontend.json", "bot.json"}
       THEN Available(a, IF e.base = "frontend.json" THEN "frontend" ELSE "bot")
       ELSE NoFile

\* the folder that holds the file of the editor
FolderOf(e) == IF e.dirs = <<>> THEN "" ELSE e.dirs[Len(e.dirs)]

\* C28: a call returns the available file with the basename of the stored preference if
\* there is one, whatever the editor shows; otherwise the available file with the basename
\* of the editor's file if an editor is open, its file lies in the folder of the requested
\* locale and is frontend or bot; otherwise none.
C28_ResolutionOrder ==
  [][resolveArgs' # resolveArgs \/ target' # target =>
       target' = InOrder(resolveArgs', prefs, editor, FolderOf(editor))]_vars

\* C28 for the copy that is given the available paths, the locale of the editing context
\* being the first directory of its path that looks like a locale.
ResolutionOrderGivenPaths ==
  [][(resolveArgs' # resolveArgs \/ target' # target) /\ resolveArgs'.by = "availablePaths" =>
       target' = InOrder(resolveArgs', prefs, editor, extractLocaleFromPath(editor.dirs))]_vars

\* C28 for the copy that is given the available paths and an editor whose path has no
\* directory that looks like a locale above the folder of its file.
ResolutionOrderPlainPath ==
  [][(resolveArgs' # resolveArgs \/ target' # target) /\ resolveArgs'.by = "availablePaths"
        /\ (editor = NoEditor \/ \A n \in 1..(Len(editor.dirs) - 1) : ~LocaleLike(editor.dirs[n])) =>
       target' = InOrder(resolveArgs', prefs, editor, FolderOf(editor))]_vars


(***************************************************************************)
(* Properties of the preference updates (SpecPrefs).                       *)
(***************************************************************************)
\* the stored map holds the entry of every call that returned, for the locales all of
\* whose calls set the same file type
EntriesKept ==
  \A s \in completedSetups :
    (\A t \in completedSetups : t[1] = s[1] => t[2] = s[2]) => prefs[s[1]] = s[2]

\* C29: whatever the interleaving of the setupAutoSavePreference calls, the stored map
\* contains the entry of every call that has returned.
C29_NoLostUpdate == EntriesKept

\* C29 for the calls of one invocation of the command, which follow one another.
SequentialUpdatesKept == apc["second"] = "idle" => EntriesKept


(***************************************************************************)
(* Idle-key reporting (SpecUnused).                                        *)
(***************************************************************************)
\* the active locales that hold a record of a key in a file the preferences admit
Qualifying(k) ==
  {l \in Locales : /\ catalog[k][l].present
                   /\ (prefs[l] = "" \/ catalog[k][l].file.base = prefs[l] \o ".json")}

\* the idle keys with a qualifying locale, in the order of the idle list
Reportable == SelectSeq(usage.idle, LAMBDA k : Qualifying(k) # {})

\* a sequence lists the members of a set once each, in the order of visibleLocales
ListsInOrder(s, S) ==
  /\ Range(s) = S /\ NoDuplicates(s)
  /\ \A a, b \in 1..Len(s) : a < b => PositionIn(visibleLocales, s[a]) < PositionIn(visibleLocales, s[b])

\* C30: the analysis produces one UnusedKeyInfo for each idle key with at least one
\* qualifying locale and for no other key; its locales are exactly the active locales
\* that hold a record of the key in a file the preferences admit, its files are the
\* paths of these records, each once; so an idle key held in two locales without
\* preferences is reported with both.
C30_IdleKeyReporting ==
  op = "analyzeUnusedKeys" =>
    /\ Len(unusedKeys) = Len(Reportable)
    /\ \A n \in 1..Len(unusedKeys) :
         LET info == unusedKeys[n]
         IN /\ info.keypath = Reportable[n]
            /\ ListsInOrder(info.locales, Qualifying(info.keypath))
            /\ Range(info.files) = {catalog[info.keypath][l].file : l \in Qualifying(info.keypath)}
            /\ NoDuplicates(info.files)

\* an idle key held in en and fr, neither with a preference, is reported for both, and
\* another idle key has no qualifying locale and is not reported
C30_Witness ==
  /\ op = "analyzeUnusedKeys"
  /\ prefs["en"] = "" /\ prefs["fr"] = ""
  /\ \E n \in 1..Len(unusedKeys) :
       /\ unusedKeys[n].locales = <<"en", "fr">>
       /\ Len(unusedKeys[n].files) = 2
  /\ Len(unusedKeys) < Len(usage.idle)


(***************************************************************************)
(* The report command and the strict analysis on catalogs that hold blank  *)
(* values in the target locales.                                           *)
(***************************************************************************)
\* the records a locale can hold in the catalogs the report is made of
ReportRecs(l) ==
  CASE l = sourceLanguage ->
         {NoRec, Rec(" ", Path(l, "frontend.json")), Rec("Hi", Path(l, "frontend.json"))}
    [] l = "fr" ->
         {NoRec, Rec("", Path(l, "frontend.json")), Rec("Hi", Path(l, "frontend.json"))}
    [] OTHER -> {NoRec, Rec("Hi", Path(l, "frontend.json"))}

InitReport ==
  /\ catalog \in [Keys -> {r \in [Locales -> UNION {ReportRecs(l) : l \in Locales}] :
                              \A l \in Locales : r[l] \in ReportRecs(l)}]
  /\ prefs = NoPrefs
  /\ \E m \in SUBSET AbsentKeys(catalog) : usage = [missing |-> m, idle |-> <<>>]
  /\ NoOutputs
  /\ RunIdle
  /\ loader \in BOOLEAN /\ workspaceFolders \in BOOLEAN

NextReportOrAnalysis == NextReport \/ (rpc = "idle" /\ loader /\ AnalyzeMissingKeys)

SpecReport == InitReport /\ [][NextReportOrAnalysis]_vars

\* the keys that have a record in locale l
PresentKeys(l) == {k \in Keys : catalog[k][l].present}

\* the keys of the catalog
CatalogKeys == UNION {PresentKeys(l) : l \in Locales}

\* the keys that have a record with a non-blank value in the source locale
NonBlankSourceKeys ==
  {k \in PresentKeys(sourceLanguage) : Trim(catalog[k][sourceLanguage].value) # ""}

\* the report command went past its coverage loop
ReportCollected ==
  rpc \in {"saveDialog", "done"} /\ loader /\ (toWorkspace => workspaceFolders)

CoveragePartitioned ==
  /\ ReportCollected =>
       \A l \in Locales :
         /\ Range(reportSets.missingKeysByLocale[l]) = CatalogKeys \ PresentKeys(l)
         /\ Range(reportSets.emptyKeysByLocale[l]) =
              {k \in CatalogKeys \cap PresentKeys(l) : Trim(catalog[k][l].value) = ""}
  /\ op = "analyzeMissingKeys" =>
       \A l \in Locales \ {sourceLanguage} :
         {k \in Keys : \E n \in 1..Len(missingKeysInfo) :
                          missingKeysInfo[n].keypath = k /\ Includes(missingKeysInfo[n].locales, l)}
           = NonBlankSourceKeys \ PresentKeys(l)

\* C31: for the key universe U a coverage is computed over (the keys of the catalog in
\* the report command, the keys with a non-blank source value in the analysis) and every
\* locale L, the keys reported missing are exactly the keys of U without a record in L,
\* the keys reported empty are exactly the keys of U whose record in L has a blank value,
\* and no step of the computation changes the catalog.
C31_CoveragePartition == [][CoveragePartitioned' /\ catalog' = catalog]_vars

\* a report in which one locale has both a missing and an empty key
C31_Witness ==
  /\ ReportCollected
  /\ \E l \in Locales :
       reportSets.missingKeysByLocale[l] # <<>> /\ reportSets.emptyKeysByLocale[l] # <<>>


(***************************************************************************)
(* The translation run with other parties at work: notifications of other  *)
(* translations on Translator.onDidChange and records written to the       *)
(* catalog from outside the command.                                       *)
(***************************************************************************)
\* only the first two keys can lack records of the target locales
InitShared ==
  /\ InitRun
  /\ loader = TRUE
  /\ \A k \in Keys : k > 2 => \A l \in Locales : catalog[k][l].present

\* a translation started by another party emits a notification
OtherPartyEmits ==
  /\ listeners # {}
  /\ edits < MaxEdits
  /\ edits' = edits + 1
  /\ \E k \in Keys, l \in TargetLocales, a \in {"start", "end"} :
       LET event == [keypath |-> k, locale |-> l, action |-> a, by |-> "other"]
       IN /\ Deliver(event)
          /\ lastEvent' = event
  /\ UNCHANGED <<inputVars, analysisVars, i, j, token, answer, pendingWrites, jobs,
                 translatedCount, delays, message, historyVars, otherCmdVars>>

\* another party writes a translated record of a target locale while the confirmation
\* dialog is open or between two passes of the locale loop
OtherPartyWrites ==
  /\ pc \in {"confirm", "localeTop"}
  /\ edits < MaxEdits
  /\ \E k \in Keys, l \in TargetLocales :
       /\ ~catalog[k][l].present
       /\ catalog' = [catalog EXCEPT ![k][l] = Rec("Hi", Path(l, "frontend.json"))]
  /\ edits' = edits + 1
  /\ UNCHANGED cmdVars
  /\ UNCHANGED <<prefs, usage, analysisVars, loopVars, historyVars>>

NextShared == Next \/ OtherPartyEmits \/ OtherPartyWrites

SpecShared == InitShared /\ [][NextShared]_vars

(***************************************************************************)
(* Properties of the completion wait (SpecShared).                         *)
(***************************************************************************)
\* the notification is the end notification of (kp, l)
EndOf(event, kp, l) == event.keypath = kp /\ event.locale = l /\ event.action = "end"

\* C32: the wait for (keypath, locale) is released only by a notification whose keypath,
\* locale and action = end all match, and a listener is unsubscribed only by such a
\* notification: a notification that differs in any of the three releases no wait and
\* removes no listener.
C32_ExactMatchReleases ==
  [][/\ (pc = "awaiting" /\ pc' # "awaiting") => EndOf(lastEvent', keyInfo.keypath, locale)
     /\ \A ls \in listeners \ listeners' : EndOf(lastEvent', ls[1], ls[2])]_vars

\* the run still waits after another party's end notification for the same keypath and
\* another locale, and after a start notification for its own pair
C32_Witness ==
  /\ pc = "awaiting" /\ <<keyInfo.keypath, locale>> \in listeners
  /\ \/ /\ lastEvent.by = "other" /\ lastEvent.action = "end"
        /\ lastEvent.keypath = keyInfo.keypath /\ lastEvent.locale # locale
     \/ /\ lastEvent.by = "other" /\ lastEvent.action = "start"
        /\ lastEvent.keypath = keyInfo.keypath /\ lastEvent.locale = locale


\* C37: while other parties emit notifications on the translator's event bus, the wait
\* for (keypath, locale) is released only by the end notification of the run's own
\* invocation: when the run leaves the wait, its invocation for the pair is no longer
\* outstanding.
C37_NoCrossTalk ==
  [][(pc = "awaiting" /\ pc' # "awaiting") =>
       (lastEvent'.by = "run" /\ <<i, locale>> \notin JobPairs(jobs'))]_vars

\* the waits that no notification of another party ends are released by the run's own
\* end notification
OwnEndReleases ==
  [][(pc = "awaiting" /\ pc' # "awaiting" /\ lastEvent'.by = "run") =>
       <<i, locale>> \notin JobPairs(jobs')]_vars


\* C38: at every point of a run at most one listener of the run is registered on the
\* event bus (a listener is disposed by the first end notification that matches it, which
\* also resolves its wait), and no listener of the run is registered when the run has
\* shown its terminal report.
C38_ListenerHygiene ==
  /\ Cardinality(listeners) <= 1
  /\ (pc = "done" /\ message.kind = "completed") => listeners = {}

\* without an invocation that failed, the only listener is the one of the current wait
ListenerOfCurrentWait ==
  (uncaught = {} /\ \A n \in 1..MaxKeys, l \in Locales : <<n, l>> \in invoked =>
       (<<n, l>> \in JobPairs(jobs) \/ <<missingKeysInfo[n].keypath, l>> \notin listeners))
    => (listeners # {} => pc = "awaiting" /\ listeners = {<<keyInfo.keypath, locale>>})


\* the record of the pair was written by the run in this step
WrittenNow(n, l) == <<n, l>> \in invoked' \ invoked

\* C39: the run never replaces a non-blank record of a target locale by an empty one:
\* for every (keypath, locale) it writes its empty pending write for, the catalog holds
\* no record with a non-blank value for the pair at the moment of the write, also when
\* another party changed the catalog after the analysis.
C39_NoOverwrite ==
  [][\A n \in 1..Len(missingKeysInfo), l \in TargetLocales :
       WrittenNow(n, l) =>
         ~(catalog[missingKeysInfo[n].keypath][l].present
           /\ Trim(catalog[missingKeysInfo[n].keypath][l].value) # "")]_vars


(***************************************************************************)
(* Properties of the end of a cleanup (SpecCleanup).                       *)
(***************************************************************************)
\* the kinds of the messages shown so far
ShownKinds == {shown[n].kind : n \in 1..Len(shown)}

\* no key of the selection was confirmed
NoneConfirmed == \A n \in 1..Len(selectedKeys) : ~Confirmed(n)

\* C33: the refresh of the usage report is scheduled at most once per cleanup run, only
\* after the batch deletion has returned and only if the analyzer holds a cache; when the
\* deletion fails an error is shown, no refresh is scheduled and no success message is
\* shown; when no key ends up confirmed there is no deletion call and no refresh.
C33_RefreshAfterDeletion ==
  /\ refreshes <= 1
  /\ refreshes = 1 =>
       /\ hasCache /\ cpc = "done" /\ Len(deleteCalls) = 1
       /\ "completed" \in ShownKinds
       /\ \A r \in Range(deleteCalls[1]) : ~catalog[r[1]][r[2]].present
  /\ (cpc = "done" /\ deleteCalls # <<>> /\ "completed" \notin ShownKinds) =>
       /\ "deleteError" \in ShownKinds
       /\ refreshes = 0
  /\ (cpc = "done" /\ NoneConfirmed) => (deleteCalls = <<>> /\ refreshes = 0)

\* a deletion failed although the analyzer holds a cache: the error is shown and no
\* refresh is scheduled
C33_Witness ==
  /\ cpc = "done" /\ hasCache /\ deleteCalls # <<>>
  /\ "deleteError" \in ShownKinds /\ refreshes = 0


(***************************************************************************)
(* The manage-preferences command: manageAutoSavePreferences with its      *)
(* setupAutoSavePreferences and editPreference, and                        *)
(* AutoSaveToFileManager.clearPreferences.                                 *)
(***************************************************************************)
\* manageAutoSavePreferences, up to its first await: the stored preferences are read
ManageStart ==
  /\ manage.pc = "idle"
  /\ manage' = [manage EXCEPT !.preferences = prefs,
                              !.pc = IF \A l \in Locales : prefs[l] = "" THEN "offer" ELSE "pick"]
  /\ UNCHANGED <<inputVars, analysisVars, runVars, configVars, cleanupVars, prefVars, reportVars,
                 resolveVars, shown>>

\* the message that offers the setup returns
ManageOffer ==
  /\ manage.pc = "offer"
  /\ \E setup \in {"Setup Preferences", "Cancel", "dismissed"} :
       manage' = [manage EXCEPT !.pc = IF setup = "Setup Preferences" THEN "localeInput" ELSE "done"]
  /\ UNCHANGED <<inputVars, analysisVars, runVars, configVars, cleanupVars, prefVars, reportVars,
                 resolveVars, shown>>

\* the quick pick of the stored preferences returns
ManagePick ==
  /\ manage.pc = "pick"
  /\ \E selected \in {"dismissed", "add", "clear"} \cup {l \in Locales : manage.preferences[l] # ""} :
       manage' = CASE selected = "dismissed" -> [manage EXCEPT !.pc = "done"]
                   [] selected = "add" -> [manage EXCEPT !.pc = "localeInput"]
                   [] selected = "clear" -> [manage EXCEPT !.pc = "clearConfirm"]
                   [] OTHER -> [manage EXCEPT !.pc = "filePick", !.locale = selected]
  /\ UNCHANGED <<inputVars, analysisVars, runVars, configVars, cleanupVars, prefVars, reportVars,
                 resolveVars, shown>>

\* setupAutoSavePreferences: the input box of the locale returns
ManageLocaleInput ==
  /\ manage.pc = "localeInput"
  /\ \E input \in Locales \cup {"dismissed"} :
       manage' = IF input = "dismissed" THEN [manage EXCEPT !.pc = "done"]
                 ELSE [manage EXCEPT !.pc = "filePick", !.locale = input]
  /\ UNCHANGED <<inputVars, analysisVars, runVars, configVars, cleanupVars, prefVars, reportVars,
                 resolveVars, shown>>

\* a file pick after which only the new entry is handed to config.update
ManageFilePickFresh ==
  /\ manage.pc = "filePick"
  /\ \E fileType \in FileNames \cup {"dismissed"} :
       manage' = IF fileType = "dismissed" THEN [manage EXCEPT !.pc = "done"]
                 ELSE [manage EXCEPT !.pc = "updating", !.fileType = fileType, !.before = prefs,
                                     !.currentPrefs = [NoPrefs EXCEPT ![manage.locale] = fileType]]
  /\ UNCHANGED <<inputVars, analysisVars, runVars, configVars, cleanupVars, prefVars, reportVars,
                 resolveVars, shown>>

\* the quick pick of the file returns; when a file is picked setupAutoSavePreference
\* reads the stored map, sets the entry in it and hands it to config.update
ManageFilePick ==
  /\ manage.pc = "filePick"
  /\ \E fileType \in FileNames \cup {"dismissed"} :
       manage' = IF fileType = "dismissed" THEN [manage EXCEPT !.pc = "done"]
                 ELSE [manage EXCEPT !.pc = "updating", !.fileType = fileType, !.before = prefs,
                                     !.currentPrefs = [prefs EXCEPT ![manage.locale] = fileType]]
  /\ UNCHANGED <<inputVars, analysisVars, runVars, configVars, cleanupVars, prefVars, reportVars,
                 resolveVars, shown>>

\* config.update of setupAutoSavePreference resolves
ManageUpdateReturns ==
  /\ manage.pc = "updating"
  /\ prefs' = manage.currentPrefs
  /\ shown' = Append(shown, Shown("manage", "set", 0, 0))
  /\ manage' = [manage EXCEPT !.pc = "done"]
  /\ UNCHANGED <<catalog, usage, analysisVars, runVars, configVars, cleanupVars, prefVars, reportVars,
                 resolveVars>>

\* the warning that asks whether to clear all preferences returns
ManageClearConfirm ==
  /\ manage.pc = "clearConfirm"
  /\ \E confirm \in {"Yes, Clear All", "Cancel", "dismissed"} :
       manage' = [manage EXCEPT !.pc = IF confirm = "Yes, Clear All" THEN "clearing" ELSE "done"]
  /\ UNCHANGED <<inputVars, analysisVars, runVars, configVars, cleanupVars, prefVars, reportVars,
                 resolveVars, shown>>

\* config.update of clearPreferences resolves
ManageClearReturns ==
  /\ manage.pc = "clearing"
  /\ prefs' = NoPrefs
  /\ shown' = Append(shown, Shown("manage", "cleared", 0, 0))
  /\ manage' = [manage EXCEPT !.pc = "done"]
  /\ UNCHANGED <<catalog, usage, analysisVars, runVars, configVars, cleanupVars, prefVars, reportVars,
                 resolveVars>>

\* config.update rejects into the catch of manageAutoSavePreferences
ManageUpdateRejects ==
  /\ manage.pc \in {"updating", "clearing"}
  /\ shown' = Append(shown, Shown("manage", "error", 0, 0))
  /\ manage' = [manage EXCEPT !.pc = "done"]
  /\ UNCHANGED <<inputVars, analysisVars, runVars, configVars, cleanupVars, prefVars, reportVars,
                 resolveVars>>

Manage ==
  \/ ManageStart \/ ManageOffer \/ ManagePick \/ ManageLocaleInput \/ ManageFilePick
  \/ ManageUpdateReturns \/ ManageClearConfirm \/ ManageClearReturns \/ ManageUpdateRejects

InitManage ==
  /\ catalog = [k \in Keys |-> [l \in Locales |-> NoRec]]
  /\ prefs \in {NoPrefs, [NoPrefs EXCEPT !["en"] = "bot"],
                [NoPrefs EXCEPT !["en"] = "bot", !["fr"] = "frontend"]}
  /\ usage = [missing |-> {}, idle |-> <<>>]
  /\ NoOutputs
  /\ RunIdle
  /\ loader = TRUE /\ workspaceFolders = TRUE

\* the command next to an invocation of the auto-detect command
NextManage == Manage \/ AutoDetect("first")

SpecManage == InitManage /\ [][NextManage]_vars

(***************************************************************************)
(* Properties of the manage-preferences command (SpecManage).              *)
(***************************************************************************)
\* the command ends in this step with the message of the given kind
ManageEndsWith(kind) ==
  /\ manage.pc # "done" /\ manage'.pc = "done"
  /\ Len(shown') = Len(shown) + 1
  /\ shown'[Len(shown')].kind = kind

\* the command ends in this step because a dialog was dismissed or declined
ManageDismissed ==
  /\ manage.pc \in {"offer", "pick", "localeInput", "filePick", "clearConfirm"}
  /\ manage'.pc = "done"

\* C34: when setupAutoSavePreference(l, f) completes the stored preferences map l to f
\* and hold for every other locale the entry they held when the call was made; when
\* clearPreferences completes the stored mapping is empty; dismissing a dialog of the
\* manage-preferences command (locale input, file pick, clear confirmation, and the
\* first pick or offer) leaves the stored mapping as it is.
C34_PreferenceFrame ==
  [][/\ ManageEndsWith("set") =>
          /\ prefs'[manage.locale] = manage.fileType
          /\ \A m \in Locales \ {manage.locale} : prefs'[m] = manage.before[m]
     /\ ManageEndsWith("cleared") => \A m \in Locales : prefs'[m] = ""
     /\ ManageDismissed => prefs' = prefs]_vars

\* a preference was set for one locale while another locale keeps its entry
C34_Witness ==
  /\ manage.pc = "done" /\ shown # <<>> /\ shown[Len(shown)].kind = "set"
  /\ shown[Len(shown)].cmd = "manage"
  /\ prefs[manage.locale] = manage.fileType
  /\ \E m \in Locales \ {manage.locale} : prefs[m] # ""


(***************************************************************************)
(* Properties of one invocation of the auto-detect command (SpecPrefs).    *)
(***************************************************************************)
\* the file exists in a detected folder of the locale
FileDetected(c, l, f) ==
  \E n \in 1..Len(detectedLocales[c]) :
    /\ detectedLocales[c][n].locale = l
    /\ IF f = "frontend" THEN detectedLocales[c][n].hasFrontend ELSE detectedLocales[c][n].hasBot

\* the dialog of the invocation has returned
DialogReturned(c) == apc[c] \in {"applying", "updating"} \/ (apc[c] = "done" /\ dialog[c] # NoDialog)

\* the locales whose preference the command has set
LocalesSet == {s[1] : s \in completedSetups}

AutoDetectApplies(c) ==
  /\ \A s \in completedSetups :
       /\ \E n \in dialog[c].selected : detectedLocales[c][n].locale = s[1]
       /\ dialog[c].result[s[1]] = s[2]
       /\ FileDetected(c, s[1], s[2])
       /\ prefs[s[1]] = s[2]
  /\ DialogReturned(c) =>
       /\ \A n \in dialog[c].selected :
            LET d == detectedLocales[c][n]
            IN (d.hasFrontend # d.hasBot
                /\ \A m \in dialog[c].selected : detectedLocales[c][m].locale = d.locale => m = n)
                 => dialog[c].result[d.locale] = (IF d.hasFrontend THEN "frontend" ELSE "bot")
       /\ \A l \in Locales : dialog[c].result[l] = "" => prefs[l] = dialog[c].before[l]
       /\ dialog[c].selected = {} => (prefs = dialog[c].before /\ completedSetups = {})
  /\ \A n \in 1..Len(shown) :
       shown[n].kind = "applied" => shown[n].count = Cardinality(LocalesSet)

\* C35: one invocation of the auto-detect command sets a preference only for selected
\* locales for which a file was chosen; a selected locale with only one of the two files
\* gets that file; a locale whose prompt is dismissed, or that is not selected, keeps the
\* preference it had; dismissing the selection writes nothing; a stored preference names a
\* file that was detected for the locale; and the count of the final message is the number
\* of locales whose preference was set.
C35_AutoDetectApplies == apc["second"] = "idle" => AutoDetectApplies("first")

\* the folders of the detected items are folders of different locales
DistinctLocales(c) ==
  \A n, m \in 1..Len(detectedLocales[c]) :
    detectedLocales[c][n].locale = detectedLocales[c][m].locale => n = m

\* C35 in the workspaces in which no locale is detected twice
AppliesToDistinctLocales ==
  (apc["second"] = "idle" /\ DistinctLocales("first")) => AutoDetectApplies("first")


(***************************************************************************)
(* Properties of the missing-keys report (SpecReport).                     *)
(***************************************************************************)
\* fs.writeFileSync was called: the success message, or the error of a failed write
WriteCalled ==
  shown # <<>> /\ shown[Len(shown)].cmd = "report" /\ shown[Len(shown)].kind \in {"saved", "error"}

\* the keys of the catalog that lack a record, resp. hold a blank value, in some locale
SomewhereMissing == {k \in CatalogKeys : \E l \in Locales : ~catalog[k][l].present}

SomewhereEmpty ==
  {k \in CatalogKeys : \E l \in Locales : catalog[k][l].present /\ Trim(catalog[k][l].value) = ""}

\* C36: a failure of the usage analysis does not abort the report, which is then built
\* from the coverage of the locales alone; the report file is written iff at least one
\* missing or empty key exists and, in the variant with the save dialog, the user chose
\* a path; the code-detected keys are a subset of all missing keys of the report, and
\* every key listed as missing or empty for a locale is in the set of all missing,
\* resp. all empty, keys.
C36_ReportContents ==
  ReportCollected =>
    /\ reportSets.codeDetectedMissingKeys \subseteq reportSets.missing
    /\ \A l \in Locales :
         /\ Range(reportSets.missingKeysByLocale[l]) \subseteq reportSets.missing
         /\ Range(reportSets.emptyKeysByLocale[l]) \subseteq reportSets.empty
    /\ op = "writeMissingKeysNoUsage" =>
         /\ reportSets.missing = SomewhereMissing
         /\ reportSets.empty = SomewhereEmpty
    /\ rpc = "done" =>
         (WriteCalled <=>
            /\ reportSets.missing \cup reportSets.empty # {}
            /\ toWorkspace \/ reportSets.saveUri \in {"file", "unwritable"})

\* a report written although the usage analysis failed
C36_Witness ==
  /\ ReportCollected /\ rpc = "done" /\ op = "writeMissingKeysNoUsage"
  /\ WriteCalled /\ shown[Len(shown)].kind = "saved"
  /\ reportSets.missing # {} /\ reportSets.empty # {}


\* the UnusedKeyInfo of the selection that reports the keypath
InfoOf(keypath) ==
  {selectedKeys[n] : n \in {m \in 1..Len(selectedKeys) : selectedKeys[m].keypath = keypath}}

\* C40: every record the cleanup submits for deletion belongs to a confirmed key, to a
\* locale listed in the locales of the key's UnusedKeyInfo and to a file listed in its
\* files; a record held in another file than the preferred one of its locale is never
\* submitted.
C40_DeletesOnlyReported ==
  cpc = "deleting" =>
    \A r \in Range(recordsToDelete) :
      /\ \E info \in InfoOf(r[1]) :
           /\ r[2] \in Range(info.locales)
           /\ catalog[r[1]][r[2]].file \in Range(info.files)
      /\ prefs[r[2]] # "" => catalog[r[1]][r[2]].file.base = prefs[r[2]] \o ".json"

\* C40 for the runs in which no locale has a preference and the catalog is not changed
\* from outside while the command runs
DeletesReportedWithoutPreference ==
  (cpc = "deleting" /\ edits = 0 /\ \A l \in Locales : prefs[l] = "") =>
    \A r \in Range(recordsToDelete) :
      \E info \in InfoOf(r[1]) :
        /\ r[2] \in Range(info.locales)
        /\ catalog[r[1]][r[2]].file \in Range(info.files)

====
